---- MODULE Spec2Model ----
(***************************************************************************)
(* Error-context assembly pipeline of Debug-AI                             *)
(*   backend/app/utils/stack_trace_parser.py  parse / select frames        *)
(*   backend/app/utils/git_fetcher.py         normalize paths, fetch files *)
(*   backend/app/utils/prompt_builder.py      bounded prompt assembly      *)
(*   backend/app/celery/tasks.py              perform_ai_analysis          *)
(*                                                                         *)
(* Representation of Python values                                         *)
(*   path      a str used character by character: a sequence of one-       *)
(*             character strings, <<"s","r","c","/","a",".","j","s">>      *)
(*   text      a str used line by line (error message, stack trace, file   *)
(*             content): the sequence str.split("\n") of its lines, never  *)
(*             empty; the empty string is <<"">>                           *)
(*   None      NULL                                                        *)
(***************************************************************************)
EXTENDS Integers, Sequences, FiniteSets, TLC

VARIABLES
    pc,                   \* position of the operation under way
    payload,              \* error_event.payload: [message, stack]
    repo_config_dict,     \* error_event.project.repo_config
    stack_frames,         \* parse_stack_trace(error_stack)
    max_files,            \* max_files argument of get_relevant_files
    relevant_frames,      \* get_relevant_files(stack_frames, max_files)
    idx,                  \* index of the fetch loop (enumerate)
    elapsed_time,         \* time.time() - fetch_start_time
    normalized_path,      \* local of the fetch loop; UNBOUND until assigned
    source_code_context,  \* code blocks gathered by the fetch loop
    max_total_lines,      \* max_total_lines argument of build_debugging_prompt
    prompt,               \* list of lines of the prompt string
    result,               \* value returned by perform_ai_analysis
    log,                  \* what the fetch loop did, frame by frame
    request,              \* a call of the fetcher: its arguments and what came of it
    error_events,         \* rows of the error_events table, by id
    error_analysis,       \* rows of the error_analysis table
    deliveries,           \* messages of the ai_analysis queue and their executions
    environ               \* os.environ of the workers

vars == <<pc, payload, repo_config_dict, stack_frames, max_files, relevant_frames,
          idx, elapsed_time, normalized_path, source_code_context,
          max_total_lines, prompt, result, log, request, error_events,
          error_analysis, deliveries, environ>>

(***************************************************************************)
(* Python values and string helpers                                        *)
(***************************************************************************)
\* None. Texts are non-empty sequences and paths hold characters, so the
\* empty sequence is free to stand for None among them.
NULL == <<>>

\* a local name that no assignment has bound yet
UNBOUND == <<"<unbound>">>

Max(a, b) == IF a >= b THEN a ELSE b

Min(a, b) == IF a <= b THEN a ELSE b

\* sequences over S of length 0..n
SeqsUpTo(S, n) == UNION {[1..k -> S] : k \in 0..n}

UpperChars == <<"A","B","C","D","E","F","G","H","I","J","K","L","M",
                "N","O","P","Q","R","S","T","U","V","W","X","Y","Z">>

LowerChars == <<"a","b","c","d","e","f","g","h","i","j","k","l","m",
                "n","o","p","q","r","s","t","u","v","w","x","y","z">>

\* str.lower() on one character
LowerChar(c) ==
    IF \E i \in 1..Len(UpperChars) : UpperChars[i] = c
    THEN LowerChars[CHOOSE i \in 1..Len(UpperChars) : UpperChars[i] = c]
    ELSE c

\* str.lower()
Lower(s) == [i \in 1..Len(s) |-> LowerChar(s[i])]

\* str.replace('\\', '/')
SlashNormalize(s) == [i \in 1..Len(s) |-> IF s[i] = "\\" THEN "/" ELSE s[i]]

\* pattern in s  (substring test)
Contains(s, pattern) ==
    \E i \in 0..(Len(s) - Len(pattern)) : SubSeq(s, i + 1, i + Len(pattern)) = pattern

(***************************************************************************)
(* stack_trace_parser.get_relevant_files                                   *)
(***************************************************************************)
excluded_patterns == <<
    <<"n","o","d","e","_","m","o","d","u","l","e","s">>,
    <<".","n","e","x","t">>,
    <<".","n","u","x","t">>,
    <<"v","e","n","v">>,
    <<"e","n","v">>,
    <<".","v","e","n","v">>,
    <<"_","_","p","y","c","a","c","h","e","_","_">>,
    <<"s","i","t","e","-","p","a","c","k","a","g","e","s">>,
    <<".","p","y","t","e","s","t","_","c","a","c","h","e">>,
    <<"t","a","r","g","e","t">>,
    <<".","g","r","a","d","l","e">>,
    <<"d","i","s","t">>,
    <<"b","u","i","l","d">>,
    <<".","b","u","i","l","d">>,
    <<"o","u","t">>,
    <<"b","i","n">>,
    <<"o","b","j">>,
    <<".","i","d","e","a">>,
    <<".","v","s","c","o","d","e">>,
    <<".","g","i","t">>
>>

\* StackFrame(file_path, line_number, function_name=None, raw_line)
StackFrame(file_path, line_number, raw_line) ==
    [file_path |-> file_path, line_number |-> line_number,
     function_name |-> NULL, raw_line |-> raw_line]

\* mutant: the patterns are looked for in the path as it is written
IsExcludedFrameCaseSensitive(frame) ==
    \E k \in 1..Len(excluded_patterns) :
        Contains(frame.file_path, excluded_patterns[k])

\* the two `continue` tests of the scan: the frame is filtered out
IsExcludedFrame(frame) ==
    LET original_path_lower == SlashNormalize(Lower(frame.file_path))
    IN  \/ Contains(original_path_lower, excluded_patterns[1])
        \/ \E k \in 1..Len(excluded_patterns) :
              Contains(original_path_lower, excluded_patterns[k])

\* the scan `for frame in stack_frames`, from position i with the frames
\* retained so far (seen_paths is the set of their file_path values); `stop`
\* is the test that breaks out of the scan after an append
RECURSIVE SelectScan(_, _, _, _)
SelectScan(frames, i, unique_frames, maxf) ==
    IF i > Len(frames) THEN unique_frames
    ELSE IF IsExcludedFrame(frames[i])
         THEN SelectScan(frames, i + 1, unique_frames, maxf)
    ELSE IF \E j \in 1..Len(unique_frames) :
                unique_frames[j].file_path = frames[i].file_path
         THEN SelectScan(frames, i + 1, unique_frames, maxf)
    ELSE LET appended == Append(unique_frames, frames[i])
         IN  IF Len(appended) >= maxf
             THEN appended
             ELSE SelectScan(frames, i + 1, appended, maxf)

get_relevant_files(frames, maxf) ==
    IF frames = <<>> THEN <<>> ELSE SelectScan(frames, 1, <<>>, maxf)

(***************************************************************************)
(* Texts: a str handled line by line                                       *)
(***************************************************************************)
\* str.splitlines() of a text
SplitLines(text) ==
    IF text[Len(text)] = "" THEN SubSeq(text, 1, Len(text) - 1) ELSE text

\* "\n".join(lines)
JoinLines(lines) == IF lines = <<>> THEN <<"">> ELSE lines

\* truthiness of an optional str: neither None nor ""
Truthy(text) == text # NULL /\ text # <<"">>

(***************************************************************************)
(* prompt_builder._limit_code_context                                      *)
(* A code block is a record with content (a text), file_path, start_line,  *)
(* end_line and, when a line number was given, target_line.                *)
(***************************************************************************)
\* len(content.splitlines())
BlockLines(block) == Len(SplitLines(block.content))

\* mutant: a remainder of exactly 10 lines is included too
MeaningfulRemainderFromTen(remaining_lines) == remaining_lines >= 10

\* remaining_lines > 10: only a meaningful amount is included
MeaningfulRemainder(remaining_lines) == remaining_lines > 10

\* block.copy() with the content cut to its first remaining_lines lines
TruncatedBlock(block, remaining_lines) ==
    LET lines == SplitLines(block.content)
        truncated_content ==
            JoinLines(SubSeq(lines, 1, Min(remaining_lines, Len(lines))))
    IN  [block EXCEPT !.content = truncated_content,
                      !.end_line = block.start_line + remaining_lines - 1]

\* the loop `for block in source_code_context`, from position i
RECURSIVE LimitScan(_, _, _, _, _)
LimitScan(blocks, i, total_lines, limited, maxl) ==
    IF i > Len(blocks) THEN limited
    ELSE LET block_lines == BlockLines(blocks[i])
             remaining_lines == maxl - total_lines
         IN  IF total_lines + block_lines <= maxl
             THEN LimitScan(blocks, i + 1, total_lines + block_lines,
                            Append(limited, blocks[i]), maxl)
             ELSE IF MeaningfulRemainder(remaining_lines)
                  THEN Append(limited, TruncatedBlock(blocks[i], remaining_lines))
                  ELSE limited

_limit_code_context(blocks, maxl) ==
    IF blocks = <<>> THEN <<>> ELSE LimitScan(blocks, 1, 0, <<>>, maxl)

(***************************************************************************)
(* prompt_builder.build_debugging_prompt                                   *)
(* The prompt is "\n".join(prompt_parts): the list of its lines.  A line   *)
(* is [text |-> s] for a literal or caller-supplied line, [file, path] for *)
(* f"--- File {idx}: {file_path} ---" and [lines, target] for the          *)
(* f"Lines {start_line}-{end_line} ..." line.                              *)
(***************************************************************************)
Rule == "================================================================================"

NoContextMarker == "(No source code context available)"

SourceContextHeader == "SOURCE CODE CONTEXT"

\* a text as prompt lines
Plain(text) == [i \in 1..Len(text) |-> [text |-> text[i]]]

InstructionsPart == Plain(<<
    "You are an expert debugging assistant. Analyze this error and provide actionable insights.",
    "",
    "CRITICAL CONSTRAINTS:",
    "- Base your analysis ONLY on the provided error message, stack trace, and source code context",
    "- DO NOT hallucinate logs, runtime values, or information not provided",
    "- DO NOT make assumptions about code that isn't shown",
    "- Focus on what you can see in the stack trace and source code",
    "",
    "">>)

ErrorMessagePart(error_message) ==
    Plain(<<Rule, "ERROR MESSAGE", Rule>>) \o Plain(error_message) \o Plain(<<"">>)

StackTracePart(stack_trace) ==
    Plain(<<Rule, "STACK TRACE", Rule>>) \o Plain(stack_trace) \o Plain(<<"">>)

\* `if target_line:` of the block rendering
HasTarget(code_block) ==
    "target_line" \in DOMAIN code_block /\ code_block.target_line # 0

\* the lines appended for code block number k (enumerate from 1)
RenderBlock(k, code_block) ==
    << [file |-> k, path |-> code_block.file_path],
       IF HasTarget(code_block)
       THEN [lines |-> <<code_block.start_line, code_block.end_line>>,
             target |-> code_block.target_line]
       ELSE [lines |-> <<code_block.start_line, code_block.end_line>>],
       [text |-> ""] >>
    \o Plain(code_block.content) \o Plain(<<"">>)

RECURSIVE RenderBlocks(_, _)
RenderBlocks(limited_context, k) ==
    IF k > Len(limited_context) THEN <<>>
    ELSE RenderBlock(k, limited_context[k]) \o RenderBlocks(limited_context, k + 1)

SourceContextPart(limited_context) ==
    IF limited_context # <<>>
    THEN Plain(<<Rule, SourceContextHeader, Rule, "">>)
         \o RenderBlocks(limited_context, 1)
    ELSE Plain(<<Rule, SourceContextHeader, Rule, NoContextMarker, "">>)

AnalysisRequestPart ==
    Plain(<<Rule, "ANALYSIS REQUEST", Rule>>) \o Plain(<<
    "",
    "Please provide:",
    "",
    "1. ROOT CAUSE ANALYSIS",
    "   - What is the likely root cause of this error?",
    "   - What evidence from the stack trace and source code supports this?",
    "",
    "2. SUGGESTED FIX",
    "   - What specific code changes would fix this error?",
    "   - Include the exact file path and line number(s) where changes are needed",
    "",
    "3. PREVENTION STRATEGY",
    "   - How could this error be prevented in the future?",
    "   - What code patterns or practices would help avoid this?",
    "",
    "Remember: Base your analysis ONLY on the provided context. Do not invent details.",
    "">>)

\* "\n".join(prompt_parts) raises TypeError when a part is None
PromptRaises(error_message, stack_trace) ==
    error_message = NULL \/ stack_trace = NULL

\* mutant: the stack trace is appended before the error message
PromptSectionsTraceFirst(error_message, stack_trace, limited_context) ==
    << InstructionsPart,
       StackTracePart(stack_trace),
       ErrorMessagePart(error_message),
       SourceContextPart(limited_context),
       AnalysisRequestPart >>

\* the order in which the sections are appended to prompt_parts
PromptSections(error_message, stack_trace, limited_context) ==
    << InstructionsPart,
       ErrorMessagePart(error_message),
       StackTracePart(stack_trace),
       SourceContextPart(limited_context),
       AnalysisRequestPart >>

RECURSIVE Concat(_)
Concat(parts) ==
    IF parts = <<>> THEN <<>> ELSE Head(parts) \o Concat(Tail(parts))

build_debugging_prompt(error_message, stack_trace, blocks, maxl) ==
    Concat(PromptSections(error_message, stack_trace,
                          _limit_code_context(blocks, maxl)))

\* phrase in prompt, for a phrase that fills a whole line of the texts modelled
InPrompt(phrase, p) ==
    \E i \in 1..Len(p) : "text" \in DOMAIN p[i] /\ p[i].text = phrase

(***************************************************************************)
(* Path helpers (character level)                                          *)
(***************************************************************************)
Whitespace == {" ", "\t", "\n", "\r"}

RECURSIVE LStrip(_, _)
\* str.lstrip(chars)
LStrip(s, chars) ==
    IF s # <<>> /\ s[1] \in chars THEN LStrip(Tail(s), chars) ELSE s

RECURSIVE RStrip(_, _)
RStrip(s, chars) ==
    IF s # <<>> /\ s[Len(s)] \in chars
    THEN RStrip(SubSeq(s, 1, Len(s) - 1), chars) ELSE s

\* str.strip()
Strip(s) == RStrip(LStrip(s, Whitespace), Whitespace)

\* s[n:]
Drop(s, n) == SubSeq(s, Min(n, Len(s)) + 1, Len(s))

\* str.find(pattern): the first 0-based position, or -1
Find(s, pattern) ==
    IF Contains(s, pattern)
    THEN CHOOSE i \in 0..(Len(s) - Len(pattern)) :
            /\ SubSeq(s, i + 1, i + Len(pattern)) = pattern
            /\ \A j \in 0..(i - 1) : SubSeq(s, j + 1, j + Len(pattern)) # pattern
    ELSE -1

RECURSIVE Split(_, _)
\* str.split(sep) for a one-character separator
Split(s, sep) ==
    IF \E i \in 1..Len(s) : s[i] = sep
    THEN LET i == CHOOSE i \in 1..Len(s) :
                     s[i] = sep /\ \A j \in 1..(i - 1) : s[j] # sep
         IN  <<SubSeq(s, 1, i - 1)>> \o Split(Drop(s, i), sep)
    ELSE <<s>>

RECURSIVE Join(_, _)
\* sep.join(parts)
Join(parts, sep) ==
    IF parts = <<>> THEN <<>>
    ELSE IF Len(parts) = 1 THEN parts[1]
    ELSE parts[1] \o <<sep>> \o Join(Tail(parts), sep)

\* re.sub(r'^word[/\\]', '', s, flags=re.IGNORECASE) for a lower-case word
StripDirPrefix(s, word) ==
    IF /\ Len(s) > Len(word)
       /\ Lower(SubSeq(s, 1, Len(word))) = word
       /\ s[Len(word) + 1] \in {"/", "\\"}
    THEN Drop(s, Len(word) + 1)
    ELSE s

RECURSIVE StripDirPrefixes(_, _, _)
\* the patterns of a list applied one after the other, from pattern k
StripDirPrefixes(s, words, k) ==
    IF k > Len(words) THEN s
    ELSE StripDirPrefixes(StripDirPrefix(s, words[k]), words, k + 1)

\* part in names
InList(part, names) == \E k \in 1..Len(names) : names[k] = part

(***************************************************************************)
(* git_fetcher.GitFetcher.normalize_path and its steps                     *)
(* A repository configuration is a record; a key the dict lacks is NULL.   *)
(***************************************************************************)
\* a JSON value that is not a string (a number), where a str is expected
NotAString == <<"<number>">>

_normalize_using_repo_name(file_path, repo_name) ==
    IF repo_name = <<>> \/ file_path = <<>> THEN file_path
    ELSE LET path_normalized == SlashNormalize(file_path)
             repo_name_normalized == SlashNormalize(repo_name)
             at == Find(Lower(path_normalized), Lower(repo_name_normalized))
         IN  IF at = -1 THEN file_path
             ELSE LET after_repo ==
                          LStrip(LStrip(Drop(path_normalized,
                                             at + Len(repo_name_normalized)),
                                        {"/"}), {"\\"})
                  IN  IF after_repo # <<>> THEN after_repo ELSE file_path

IsLetter(c) ==
    \E i \in 1..Len(UpperChars) : UpperChars[i] = c \/ LowerChars[i] = c

absolute_project_indicators == <<
    <<"s","r","c">>,
    <<"l","i","b">>,
    <<"a","p","p">>,
    <<"b","a","c","k","e","n","d">>,
    <<"f","r","o","n","t","e","n","d">>,
    <<"s","e","r","v","e","r">>,
    <<"c","l","i","e","n","t">>,
    <<"p","a","c","k","a","g","e","s">>,
    <<"s","e","r","v","i","c","e","s">>,
    <<"e","x","a","m","p","l","e">>,
    <<"e","x","a","m","p","l","e","s">>,
    <<"t","e","s","t">>,
    <<"t","e","s","t","s">>
>>

\* the position of the first part that is one of the names, compared in lower
\* case when `fold` is set; 0 when there is none
FirstPartIn(parts, names, fold) ==
    LET Is(part) == IF fold
                    THEN \E k \in 1..Len(names) : Lower(names[k]) = Lower(part)
                    ELSE InList(part, names)
    IN  IF \E i \in 1..Len(parts) : Is(parts[i])
        THEN CHOOSE i \in 1..Len(parts) :
                Is(parts[i]) /\ \A j \in 1..(i - 1) : ~Is(parts[j])
        ELSE 0

_remove_absolute_prefix(file_path) ==
    IF /\ Len(file_path) >= 4
       /\ IsLetter(file_path[1]) /\ file_path[2] = ":"
       /\ file_path[3] \in {"/", "\\"}
       /\ file_path[4] # "\n"
    THEN Drop(file_path, 3)
    ELSE IF file_path # <<>> /\ file_path[1] = "/"
    THEN LET parts == Split(file_path, "/")
             i == FirstPartIn(parts, absolute_project_indicators, FALSE)
         IN  IF i # 0 THEN Join(SubSeq(parts, i, Len(parts)), "/")
             ELSE IF Len(parts) > 4
                  THEN Join(SubSeq(parts, Len(parts) - 3, Len(parts)), "/")
                  ELSE LStrip(file_path, {"/"})
    ELSE file_path

build_patterns == <<
    <<"d","i","s","t">>,
    <<"b","u","i","l","d">>,
    <<".","n","e","x","t">>,
    <<".","n","u","x","t">>,
    <<"o","u","t">>,
    <<"t","a","r","g","e","t">>,
    <<"b","i","n">>,
    <<"o","b","j">>
>>

_remove_build_artifacts(file_path) == StripDirPrefixes(file_path, build_patterns, 1)

default_root_hints == <<
    <<"s","r","c">>,
    <<"l","i","b">>,
    <<"a","p","p">>,
    <<"b","a","c","k","e","n","d">>,
    <<"f","r","o","n","t","e","n","d">>,
    <<"s","e","r","v","e","r">>,
    <<"c","l","i","e","n","t">>,
    <<"p","a","c","k","a","g","e","s">>,
    <<"s","e","r","v","i","c","e","s">>,
    <<"e","x","a","m","p","l","e">>,
    <<"e","x","a","m","p","l","e","s">>
>>

\* mutant: the path is returned in lower case
_remove_project_prefixes_lowercased(file_path, repo_root_hints) ==
    LET hints == IF repo_root_hints = NULL THEN default_root_hints
                 ELSE repo_root_hints
        normalized == Lower(SlashNormalize(file_path))
        parts == Split(normalized, "/")
        i == FirstPartIn(parts, hints, TRUE)
    IN  IF i # 0 THEN Join(SubSeq(parts, i, Len(parts)), "/")
        ELSE normalized

_remove_project_prefixes(file_path, repo_root_hints) ==
    LET hints == IF repo_root_hints = NULL THEN default_root_hints
                 ELSE repo_root_hints
        normalized == SlashNormalize(file_path)
        parts == Split(normalized, "/")
        i == FirstPartIn(parts, hints, TRUE)
    IN  IF i # 0 THEN Join(SubSeq(parts, i, Len(parts)), "/")
        ELSE normalized

node_modules == <<"n","o","d","e","_","m","o","d","u","l","e","s">>

excluded_dir_patterns == <<
    <<".","g","i","t">>,
    <<".","v","s","c","o","d","e">>,
    <<".","i","d","e","a">>,
    <<"v","e","n","v">>,
    <<"e","n","v">>,
    <<".","e","n","v">>
>>

\* re.match(r'.*[/\\]node_modules[/\\](.+)', ...): the greedy .* takes the
\* last "node_modules" directory that something follows
_remove_excluded_dirs(file_path) ==
    LET n == Len(node_modules)
        Hit(i) == /\ i + n + 2 <= Len(file_path)
                  /\ file_path[i] \in {"/", "\\"}
                  /\ Lower(SubSeq(file_path, i + 1, i + n)) = node_modules
                  /\ file_path[i + n + 1] \in {"/", "\\"}
        hits == {i \in 1..Len(file_path) : Hit(i)}
    IN  IF hits # {}
        THEN LET last == CHOOSE i \in hits : \A j \in hits : j <= i
             IN  Drop(file_path, last + n + 1)
        ELSE StripDirPrefixes(file_path, excluded_dir_patterns, 1)

\* the root hints of the configuration: [root_dir], else root_hints, else None
RepoRootHints(repo_config) ==
    IF repo_config = NULL THEN NULL
    ELSE IF repo_config.root_dir # NULL THEN <<repo_config.root_dir>>
    ELSE repo_config.root_hints

\* normalize_path raises (AttributeError) when the configured repository name
\* is not a str: repo_name.replace in _normalize_using_repo_name
NormalizeRaises(file_path, repo_config) ==
    /\ file_path # <<>>
    /\ repo_config # NULL
    /\ repo_config.repo = NotAString

normalize_path(file_path, repo_config) ==
    IF file_path = <<>> THEN file_path
    ELSE LET stripped == Strip(file_path)
             by_name == IF repo_config # NULL /\ repo_config.repo # NULL
                        THEN _normalize_using_repo_name(stripped, repo_config.repo)
                        ELSE stripped
         IN  IF by_name # stripped
             THEN _remove_excluded_dirs(LStrip(SlashNormalize(by_name), {"/"}))
             ELSE _remove_excluded_dirs(
                    LStrip(SlashNormalize(
                             _remove_project_prefixes(
                               _remove_build_artifacts(
                                 _remove_absolute_prefix(stripped)),
                               RepoRootHints(repo_config))),
                           {"/"}))

(***************************************************************************)
(* stack_trace_parser.parse_stack_trace                                    *)
(* A stack trace is a text.  The regular expressions of _parse_line are    *)
(* applied to a fixed pool of trace lines: for each line of the pool,      *)
(* TraceLineMatches records what each of the five patterns captures        *)
(* (re.search on the stripped line), NULL when the pattern does not match. *)
(***************************************************************************)
LineNodeApp == "at foo (/home/u/proj/src/app.js:10:5)"

LinePythonApp == "File \"/home/u/proj/app.py\", line 42, in handler"

LineNodeModules == "at /srv/node_modules/express/lib/router.js:20:3"

LineJavaMain == "at com.example.Main.run(Main.java:7)"

LineWindowsDb == "at C:\\proj\\lib\\db.js:0:1"

LineNodeAppAgain == "at bar (/home/u/proj/src/app.js:30:1)"

LineGenericUtil == "lib/util.py:3"

LineNodeEnvironment == "at baz (/home/u/proj/src/environment.js:20:9)"

LineWindowsNodeModules == "at C:\\proj\\Node_Modules\\pkg\\index.js:5:1"

LineHeader == "Error: boom"

\* the node.js line with blanks around it, as it stands inside a longer trace
LineIndented == "    at bar (/home/u/proj/src/app.js:30:1)  "

Capture(path, line_number) == [path |-> path, line_number |-> line_number]

NoMatch == [node |-> NULL, node2 |-> NULL, python |-> NULL, java |-> NULL,
            generic |-> NULL]

TraceLineMatches(line) ==
    CASE line = LineNodeApp ->
        [NoMatch EXCEPT !.node = Capture(<<"/","h","o","m","e","/","u","/","p","r","o","j","/","s","r","c","/","a","p","p",".","j","s">>, 10), !.generic = Capture(<<"(","/","h","o","m","e","/","u","/","p","r","o","j","/","s","r","c","/","a","p","p",".","j","s">>, 10)]
      [] line = LinePythonApp ->
        [NoMatch EXCEPT !.python = Capture(<<"/","h","o","m","e","/","u","/","p","r","o","j","/","a","p","p",".","p","y">>, 42)]
      [] line = LineNodeModules ->
        [NoMatch EXCEPT !.node2 = Capture(<<"/","s","r","v","/","n","o","d","e","_","m","o","d","u","l","e","s","/","e","x","p","r","e","s","s","/","l","i","b","/","r","o","u","t","e","r",".","j","s">>, 20), !.generic = Capture(<<"/","s","r","v","/","n","o","d","e","_","m","o","d","u","l","e","s","/","e","x","p","r","e","s","s","/","l","i","b","/","r","o","u","t","e","r",".","j","s">>, 20)]
      [] line = LineJavaMain ->
        [NoMatch EXCEPT !.java = Capture(<<"M","a","i","n",".","j","a","v","a">>, 7), !.generic = Capture(<<"c","o","m",".","e","x","a","m","p","l","e",".","M","a","i","n",".","r","u","n","(","M","a","i","n",".","j","a","v","a">>, 7)]
      [] line = LineWindowsDb ->
        [NoMatch EXCEPT !.node2 = Capture(<<"C",":","\\","p","r","o","j","\\","l","i","b","\\","d","b",".","j","s">>, 0), !.generic = Capture(<<"C",":","\\","p","r","o","j","\\","l","i","b","\\","d","b",".","j","s">>, 0)]
      [] line = LineNodeAppAgain ->
        [NoMatch EXCEPT !.node = Capture(<<"/","h","o","m","e","/","u","/","p","r","o","j","/","s","r","c","/","a","p","p",".","j","s">>, 30), !.generic = Capture(<<"(","/","h","o","m","e","/","u","/","p","r","o","j","/","s","r","c","/","a","p","p",".","j","s">>, 30)]
      [] line = LineGenericUtil ->
        [NoMatch EXCEPT !.generic = Capture(<<"l","i","b","/","u","t","i","l",".","p","y">>, 3)]
      [] line = LineNodeEnvironment ->
        [NoMatch EXCEPT !.node = Capture(<<"/","h","o","m","e","/","u","/","p","r","o","j","/","s","r","c","/","e","n","v","i","r","o","n","m","e","n","t",".","j","s">>, 20), !.generic = Capture(<<"(","/","h","o","m","e","/","u","/","p","r","o","j","/","s","r","c","/","e","n","v","i","r","o","n","m","e","n","t",".","j","s">>, 20)]
      [] line = LineWindowsNodeModules ->
        [NoMatch EXCEPT !.node2 = Capture(<<"C",":","\\","p","r","o","j","\\","N","o","d","e","_","M","o","d","u","l","e","s","\\","p","k","g","\\","i","n","d","e","x",".","j","s">>, 5), !.generic = Capture(<<"C",":","\\","p","r","o","j","\\","N","o","d","e","_","M","o","d","u","l","e","s","\\","p","k","g","\\","i","n","d","e","x",".","j","s">>, 5)]
      [] line = "at qux (src/app.js:12:3)" ->
        [NoMatch EXCEPT !.node = Capture(<<"s","r","c","/","a","p","p",".","j","s">>, 12), !.generic = Capture(<<"(","s","r","c","/","a","p","p",".","j","s">>, 12)]
      [] OTHER -> NoMatch

\* line.strip() on the lines of the pool
StripLine(line) ==
    IF line = LineIndented THEN LineNodeAppAgain
    ELSE IF line \in {" ", "  "} THEN ""
    ELSE line

\* the first of the five patterns, in the order of the code, that matches
_parse_line(line) ==
    LET m == TraceLineMatches(line)
        Frame(c) == StackFrame(c.path, c.line_number, line)
    IN  IF m.node # NULL THEN Frame(m.node)
        ELSE IF m.node2 # NULL THEN Frame(m.node2)
        ELSE IF m.python # NULL THEN Frame(m.python)
        ELSE IF m.java # NULL THEN Frame(m.java)
        ELSE IF m.generic # NULL THEN Frame(m.generic)
        ELSE NULL

RECURSIVE ParseLines(_, _)
\* the loop `for line in lines`, from position i
ParseLines(lines, i) ==
    IF i > Len(lines) THEN <<>>
    ELSE LET line == StripLine(lines[i])
         IN  IF line = "" THEN ParseLines(lines, i + 1)
             ELSE IF _parse_line(line) # NULL
                  THEN <<_parse_line(line)>> \o ParseLines(lines, i + 1)
                  ELSE ParseLines(lines, i + 1)

parse_stack_trace(stack_trace) ==
    IF ~Truthy(stack_trace) THEN <<>> ELSE ParseLines(stack_trace, 1)

(***************************************************************************)
(* git_fetcher.GitFetcher.fetch_file and fetch_file_with_context           *)
(* The provider's answer to one request is a record [kind, text]: kind     *)
(* says what came back and text is the file (kind "ok") or the raw body.   *)
(***************************************************************************)
Github == <<"g","i","t","h","u","b">>

Gitlab == <<"g","i","t","l","a","b">>

\* answers with HTTP status 200
OkKinds == {"ok", "empty_body", "bad_content_type", "bad_json", "no_content_field"}

\* answers that make session.get or raise_for_status raise
RaisingKinds == {"server_error", "timeout", "network_error"}

ResponseKinds == OkKinds \cup RaisingKinds \cup {"not_found"}

\* an exception leaving a function
Raised == [raised |-> TRUE]

\* _fetch_from_github: the decoded content, NULL for None, Raised when the
\* request raises
_fetch_from_github(response) ==
    IF response.kind \in RaisingKinds THEN Raised
    ELSE IF response.kind = "ok" THEN [content |-> response.text]
    ELSE NULL

\* _fetch_from_gitlab: the raw endpoint returns the body as it is
_fetch_from_gitlab(response) ==
    IF response.kind \in RaisingKinds THEN Raised
    ELSE IF response.kind = "not_found" THEN NULL
    ELSE [content |-> response.text]

\* fetch_file: every exception, the ValueError of an unsupported provider
\* included, is caught and turned into None
fetch_file(provider, response) ==
    LET got == IF provider = Github THEN _fetch_from_github(response)
               ELSE IF provider = Gitlab THEN _fetch_from_gitlab(response)
               ELSE Raised
    IN  IF got = Raised THEN NULL ELSE got

\* lines[start_line - 1:end_line]
LineSlice(lines, start_line, end_line) ==
    IF start_line > end_line THEN <<>>
    ELSE SubSeq(lines, start_line, Min(end_line, Len(lines)))

\* mutant: the line number is ignored and the whole file is returned
fetch_file_with_context_whole(provider, response, file_path, line_number, context_lines) ==
    LET file_data == fetch_file(provider, response)
    IN  IF file_data = NULL THEN NULL
        ELSE [content |-> file_data.content,
              file_path |-> file_path,
              start_line |-> 1,
              end_line |-> Len(SplitLines(file_data.content)),
              target_line |-> line_number]

\* mutant: the window is not clipped to the end of the file
fetch_file_with_context_unclipped(provider, response, file_path, line_number, context_lines) ==
    LET file_data == fetch_file(provider, response)
    IN  IF file_data = NULL THEN NULL
        ELSE LET lines == SplitLines(file_data.content)
                 start_line == Max(1, line_number - context_lines)
                 end_line == line_number + context_lines
             IN  [content |-> JoinLines(LineSlice(lines, start_line, end_line)),
                  file_path |-> file_path,
                  start_line |-> start_line,
                  end_line |-> end_line,
                  target_line |-> line_number]

fetch_file_with_context(provider, response, file_path, line_number, context_lines) ==
    LET file_data == fetch_file(provider, response)
    IN  IF file_data = NULL THEN NULL
        ELSE LET lines == SplitLines(file_data.content)
                 total_lines == Len(lines)
                 start_line == Max(1, line_number - context_lines)
                 end_line == Min(total_lines, line_number + context_lines)
             IN  [content |-> JoinLines(LineSlice(lines, start_line, end_line)),
                  file_path |-> file_path,
                  start_line |-> start_line,
                  end_line |-> end_line,
                  target_line |-> line_number]

\* the `line_number is None` branch of fetch_file_with_context: the whole
\* file, without target_line
fetch_whole_file(provider, response, file_path) ==
    LET file_data == fetch_file(provider, response)
    IN  IF file_data = NULL THEN NULL
        ELSE [content |-> file_data.content,
              file_path |-> file_path,
              start_line |-> 1,
              end_line |-> Len(SplitLines(file_data.content))]

\* RepoConfig(...) with its __post_init__: branch becomes "main" when neither
\* branch nor commit_sha is given
RepoConfig(owner, repo, branch, commit_sha, provider) ==
    [owner |-> owner, repo |-> repo,
     branch |-> IF ~Truthy(branch) /\ ~Truthy(commit_sha) THEN <<"main">> ELSE branch,
     commit_sha |-> commit_sha,
     provider |-> provider]

\* mutant: the branch takes precedence over the commit
RefBranchFirst(config) ==
    IF Truthy(config.branch) THEN config.branch ELSE config.commit_sha

\* ref = self.config.commit_sha or self.config.branch
Ref(config) ==
    IF Truthy(config.commit_sha) THEN config.commit_sha ELSE config.branch

\* no call of the fetcher under way
NoRequest == <<>>

(***************************************************************************)
(* celery/tasks.py: constants, _create_repo_config, _call_llm              *)
(***************************************************************************)
GIT_FETCH_TIMEOUT_PER_FILE == 5

GIT_FETCH_TOTAL_TIMEOUT == 15

MIN_FILES_FOR_CONTEXT == 2

\* get_relevant_files(stack_frames, max_files=5)
PipelineMaxFiles == 5

\* context_lines=15 of the fetch
ContextLines == 15

\* max_total_lines=500 of the prompt
PipelineMaxTotalLines == 500

\* `if repo_config_dict`: neither None nor an empty dict
EmptyDict ==
    [owner |-> NULL, repo |-> NULL, provider |-> NULL, root_dir |-> NULL,
     root_hints |-> NULL]

TruthyDict(d) == d # NULL /\ d # EmptyDict

\* _create_repo_config raises KeyError when "owner" or "repo" is missing
CreateRepoConfigRaises(d) == d.owner = NULL \/ d.repo = NULL

\* RepoConfig.provider: repo_config_dict.get("provider", "github")
ProviderOf(d) == IF d.provider = NULL THEN Github ELSE d.provider

\* mutant: the budget test is `>` instead of `>=`
LoopDecisionStrictBudget(i, elapsed, gathered, frames) ==
    IF i >= frames THEN "exhausted"
    ELSE IF elapsed > GIT_FETCH_TOTAL_TIMEOUT THEN "budget"
    ELSE IF i >= MIN_FILES_FOR_CONTEXT /\ gathered >= MIN_FILES_FOR_CONTEXT
         THEN "enough"
    ELSE "process"

\* mutant: the early exit needs only one of its two thresholds
LoopDecisionEitherThreshold(i, elapsed, gathered, frames) ==
    IF i >= frames THEN "exhausted"
    ELSE IF elapsed >= GIT_FETCH_TOTAL_TIMEOUT THEN "budget"
    ELSE IF i >= MIN_FILES_FOR_CONTEXT \/ gathered >= MIN_FILES_FOR_CONTEXT
         THEN "enough"
    ELSE "process"

\* mutant: the loop has no early exit
LoopDecisionNoEarlyExit(i, elapsed, gathered, frames) ==
    IF i >= frames THEN "exhausted"
    ELSE IF elapsed >= GIT_FETCH_TOTAL_TIMEOUT THEN "budget"
    ELSE "process"

\* what the loop does at its head, before frame number i (0-based) is
\* processed: the iteration ends ("exhausted"), one of the two breaks is
\* taken ("budget", "enough"), or frame i is processed ("process")
LoopDecision(i, elapsed, gathered, frames) ==
    IF i >= frames THEN "exhausted"
    ELSE IF elapsed >= GIT_FETCH_TOTAL_TIMEOUT THEN "budget"
    ELSE IF i >= MIN_FILES_FOR_CONTEXT /\ gathered >= MIN_FILES_FOR_CONTEXT
         THEN "enough"
    ELSE "process"

\* mutant: a fetch that returns None ends the loop
NextAfterFrameStopsOnMiss(outcome) ==
    IF outcome = "missed" THEN "build" ELSE "loop_head"

\* where the loop goes after the body ran for a frame: a block appended, a
\* None logged, or an exception logged by the handler (`continue`) all lead
\* back to the head of the loop
NextAfterFrame(outcome) == "loop_head"

\* the `except Exception as e` of the loop body formats normalized_path into
\* its warning: while the name is unbound the handler itself raises
\* (UnboundLocalError), which leaves the loop for the outer `except`
HandlerRaises(bound_path) == bound_path = UNBOUND

\* mutant: the marker is not looked for
ConfidenceIgnoresMarker(p) ==
    IF InPrompt(SourceContextHeader, p) THEN "high" ELSE "medium"

\* confidence of _call_llm
Confidence(p) ==
    IF InPrompt(SourceContextHeader, p) /\ ~InPrompt(NoContextMarker, p)
    THEN "high" ELSE "medium"

\* the record returned when the model answers
LlmResult(p, text) ==
    [analysis |-> [kind |-> "llm", text |-> text],
     model |-> "gpt-4o-mini",
     confidence |-> Confidence(p)]

\* mutant: the fallback keeps the confidence of a successful call
FallbackResultMediumConfidence(error_message, error_stack, e) ==
    [analysis |-> [kind |-> "fallback", message |-> error_message,
                   stack |-> error_stack, note |-> e],
     model |-> "fallback",
     confidence |-> "medium"]

\* the record returned when _call_llm raises e
FallbackResult(error_message, error_stack, e) ==
    [analysis |-> [kind |-> "fallback", message |-> error_message,
                   stack |-> error_stack, note |-> e],
     model |-> "fallback",
     confidence |-> "low"]

(***************************************************************************)
(* Inputs                                                                  *)
(***************************************************************************)
\* text of a file of n lines, numbered
FileText(n) == IF n = 0 THEN <<"">> ELSE [i \in 1..n |-> ToString(i)]

\* the same with a newline at the end of the last line
FileTextNl(n) == FileText(n) \o <<"">>

FileSizes == {0, 3, 40}

Responses ==
    {[kind |-> "ok", text |-> FileText(n)] : n \in FileSizes}
    \cup {[kind |-> k, text |-> <<"">>] : k \in {"empty_body"} \cup RaisingKinds
                                                 \cup {"not_found"}}
    \cup {[kind |-> k, text |-> <<"<html>">>] :
             k \in {"bad_content_type", "bad_json", "no_content_field"}}

\* seconds one iteration of the fetch loop can take: each request is bounded
\* by the per-file timeout
FetchDurations == {0, GIT_FETCH_TIMEOUT_PER_FILE}

Messages == {<<"boom">>, <<"no context:", NoContextMarker>>}

TraceScenario1 == <<LineNodeApp>>

TraceFull ==
    <<LineHeader, LineNodeApp, LineNodeModules, LinePythonApp, " ",
      LineJavaMain, LineWindowsDb, LineIndented, LineGenericUtil>>

TraceDependenciesOnly == <<LineNodeModules, LineNodeEnvironment>>

TraceWithMarker == <<NoContextMarker, LinePythonApp, LineGenericUtil, LineJavaMain>>

\* the last trace names one file twice, by its absolute path and by its
\* path in the repository
Traces ==
    {NULL, <<"">>, TraceScenario1, TraceFull, TraceDependenciesOnly, TraceWithMarker,
     <<LineNodeApp, "at qux (src/app.js:12:3)">>}

OwnerName == <<"o">>

ProjName == <<"p","r","o","j">>

RepoConfigs ==
    { NULL,
      EmptyDict,
      [EmptyDict EXCEPT !.owner = OwnerName, !.repo = ProjName],
      [EmptyDict EXCEPT !.owner = OwnerName, !.repo = <<"a","p","i">>,
                        !.provider = Gitlab, !.root_dir = <<"s","r","c">>],
      [EmptyDict EXCEPT !.owner = OwnerName, !.repo = ProjName,
                        !.provider = <<"s","v","n">>],
      [EmptyDict EXCEPT !.repo = ProjName],
      [EmptyDict EXCEPT !.owner = OwnerName, !.repo = NotAString] }

LlmErrors == {"ValueError", "APIError"}

(***************************************************************************)
(* perform_ai_analysis                                                     *)
(***************************************************************************)
\* log.attempts: one entry per frame the loop body ran for, with the outcome
\* ("fetched", "missed", "raised"); log.exit: how the loop was left;
\* log.llm: whether the model answered
NoLog == [attempts |-> <<>>, exit |-> "none", llm |-> "none"]

Init ==
    /\ pc = "start"
    /\ payload \in [message : Messages, stack : Traces]
    /\ repo_config_dict \in RepoConfigs
    /\ stack_frames = <<>>
    /\ max_files = PipelineMaxFiles
    /\ relevant_frames = <<>>
    /\ idx = 0
    /\ elapsed_time = 0
    /\ normalized_path = UNBOUND
    /\ source_code_context = <<>>
    /\ max_total_lines = PipelineMaxTotalLines
    /\ prompt = <<>>
    /\ result = NULL
    /\ log = NoLog
    /\ request = NoRequest
    /\ error_events = <<>>
    /\ error_analysis = <<>>
    /\ deliveries = <<>>
    /\ environ = {}

\* Step 1 and the head of Step 2: parse, select, and build the fetcher
ParseAndSelect ==
    /\ pc = "start"
    /\ LET frames == parse_stack_trace(payload.stack)
           selected == get_relevant_files(frames, max_files)
       IN  /\ stack_frames' = frames
           /\ relevant_frames' = selected
           /\ IF TruthyDict(repo_config_dict) /\ selected # <<>>
              THEN IF CreateRepoConfigRaises(repo_config_dict)
                   THEN pc' = "build" /\ log' = [log EXCEPT !.exit = "init_failed"]
                   ELSE pc' = "loop_head" /\ log' = log
              ELSE pc' = "build" /\ log' = [log EXCEPT !.exit = "no_fetch"]
    /\ UNCHANGED <<error_events, error_analysis, deliveries, environ,
                   request, payload, repo_config_dict, max_files, idx, elapsed_time,
                   normalized_path, source_code_context, max_total_lines,
                   prompt, result>>

\* the head of `for idx, frame in enumerate(relevant_frames)` with its two
\* break tests
LoopHead ==
    /\ pc = "loop_head"
    /\ LET d == LoopDecision(idx, elapsed_time, Len(source_code_context),
                             Len(relevant_frames))
       IN  IF d = "process"
           THEN pc' = "loop_body" /\ log' = log
           ELSE pc' = "build" /\ log' = [log EXCEPT !.exit = d]
    /\ UNCHANGED <<error_events, error_analysis, deliveries, environ,
                   request, payload, repo_config_dict, stack_frames, max_files,
                   relevant_frames, idx, elapsed_time, normalized_path,
                   source_code_context, max_total_lines, prompt, result>>

Attempt(outcome) == [frame |-> idx, outcome |-> outcome]

\* the loop body when normalize_path raises
NormalizeFails ==
    /\ pc = "loop_body"
    /\ NormalizeRaises(relevant_frames[idx + 1].file_path, repo_config_dict)
    /\ \E d \in FetchDurations : elapsed_time' = elapsed_time + d
    /\ IF HandlerRaises(normalized_path)
       THEN /\ pc' = "build"
            /\ log' = [log EXCEPT !.attempts = Append(@, Attempt("raised")),
                                   !.exit = "aborted"]
            /\ idx' = idx
       ELSE /\ pc' = NextAfterFrame("raised")
            /\ log' = [log EXCEPT !.attempts = Append(@, Attempt("raised"))]
            /\ idx' = idx + 1
    /\ UNCHANGED <<error_events, error_analysis, deliveries, environ,
                   request, payload, repo_config_dict, stack_frames, max_files,
                   relevant_frames, normalized_path, source_code_context,
                   max_total_lines, prompt, result>>

\* the loop body when the path is normalized and the fetch returns
FetchFrame ==
    /\ pc = "loop_body"
    /\ ~NormalizeRaises(relevant_frames[idx + 1].file_path, repo_config_dict)
    /\ \E response \in Responses, d \in FetchDurations :
         LET frame == relevant_frames[idx + 1]
             path == normalize_path(frame.file_path, repo_config_dict)
             code_data == fetch_file_with_context(ProviderOf(repo_config_dict),
                              response, path, frame.line_number, ContextLines)
         IN  /\ normalized_path' = path
             /\ elapsed_time' = elapsed_time + d
             /\ IF code_data # NULL
                THEN /\ source_code_context' = Append(source_code_context, code_data)
                     /\ log' = [log EXCEPT !.attempts = Append(@, Attempt("fetched"))]
                     /\ pc' = NextAfterFrame("fetched")
                ELSE /\ source_code_context' = source_code_context
                     /\ log' = [log EXCEPT !.attempts = Append(@, Attempt("missed"))]
                     /\ pc' = NextAfterFrame("missed")
    /\ idx' = idx + 1
    /\ UNCHANGED <<error_events, error_analysis, deliveries, environ,
                   request, payload, repo_config_dict, stack_frames, max_files,
                   relevant_frames, max_total_lines, prompt, result>>

\* the loop body when the path is normalized and the fetch itself raises
\* (an error outside fetch_file's own try, such as MemoryError while the
\* content is split): the handler logs and continues
FetchRaises ==
    /\ pc = "loop_body"
    /\ ~NormalizeRaises(relevant_frames[idx + 1].file_path, repo_config_dict)
    /\ normalized_path' =
           normalize_path(relevant_frames[idx + 1].file_path, repo_config_dict)
    /\ \E d \in FetchDurations : elapsed_time' = elapsed_time + d
    /\ log' = [log EXCEPT !.attempts = Append(@, Attempt("raised"))]
    /\ idx' = idx + 1
    /\ pc' = NextAfterFrame("raised")
    /\ UNCHANGED <<error_events, error_analysis, deliveries, environ,
                   request, payload, repo_config_dict, stack_frames, max_files,
                   relevant_frames, source_code_context, max_total_lines,
                   prompt, result>>

\* Step 3: build_debugging_prompt; a TypeError of the join leaves
\* perform_ai_analysis
BuildPrompt ==
    /\ pc = "build"
    /\ IF PromptRaises(payload.message, payload.stack)
       THEN /\ pc' = "raised"
            /\ prompt' = prompt
            /\ result' = Raised
       ELSE /\ pc' = "call_llm"
            /\ prompt' = build_debugging_prompt(payload.message, payload.stack,
                                                source_code_context, max_total_lines)
            /\ result' = result
    /\ UNCHANGED <<error_events, error_analysis, deliveries, environ,
                   request, payload, repo_config_dict, stack_frames, max_files,
                   relevant_frames, idx, elapsed_time, normalized_path,
                   source_code_context, max_total_lines, log>>

\* Step 4 when the model answers
LlmAnswers ==
    /\ pc = "call_llm"
    /\ result' = LlmResult(prompt, "analysis text")
    /\ pc' = "done"
    /\ log' = [log EXCEPT !.llm = "answered"]
    /\ UNCHANGED <<error_events, error_analysis, deliveries, environ,
                   request, payload, repo_config_dict, stack_frames, max_files,
                   relevant_frames, idx, elapsed_time, normalized_path,
                   source_code_context, max_total_lines, prompt>>

\* Step 4 when _call_llm raises
LlmFails ==
    /\ pc = "call_llm"
    /\ \E e \in LlmErrors :
         result' = FallbackResult(payload.message, payload.stack, e)
    /\ pc' = "done"
    /\ log' = [log EXCEPT !.llm = "failed"]
    /\ UNCHANGED <<error_events, error_analysis, deliveries, environ,
                   request, payload, repo_config_dict, stack_frames, max_files,
                   relevant_frames, idx, elapsed_time, normalized_path,
                   source_code_context, max_total_lines, prompt>>

Next ==
    \/ ParseAndSelect
    \/ LoopHead
    \/ NormalizeFails
    \/ FetchFrame
    \/ FetchRaises
    \/ BuildPrompt
    \/ LlmAnswers
    \/ LlmFails

Spec == Init /\ [][Next]_vars

(***************************************************************************)
(* get_relevant_files on every frame list and every max_files              *)
(***************************************************************************)
MaxFrames == 3

MaxFilesArg == 3

FrameLines ==
    {LineNodeApp, LinePythonApp, LineNodeModules, LineJavaMain, LineWindowsDb,
     LineNodeAppAgain, LineGenericUtil, LineNodeEnvironment,
     LineWindowsNodeModules}

FramePool == {_parse_line(line) : line \in FrameLines}

SelectInit ==
    /\ pc = "select"
    /\ stack_frames \in SeqsUpTo(FramePool, MaxFrames)
    /\ max_files \in 0..MaxFilesArg
    /\ payload = [message |-> <<"boom">>, stack |-> <<"">>]
    /\ repo_config_dict = NULL
    /\ relevant_frames = <<>>
    /\ idx = 0
    /\ elapsed_time = 0
    /\ normalized_path = UNBOUND
    /\ source_code_context = <<>>
    /\ max_total_lines = PipelineMaxTotalLines
    /\ prompt = <<>>
    /\ result = NULL
    /\ log = NoLog
    /\ request = NoRequest
    /\ error_events = <<>>
    /\ error_analysis = <<>>
    /\ deliveries = <<>>
    /\ environ = {}

Select ==
    /\ pc = "select"
    /\ relevant_frames' = get_relevant_files(stack_frames, max_files)
    /\ pc' = "selected"
    /\ UNCHANGED <<error_events, error_analysis, deliveries, environ,
                   request, payload, repo_config_dict, stack_frames, max_files, idx,
                   elapsed_time, normalized_path, source_code_context,
                   max_total_lines, prompt, result, log>>

SelectNext == Select

SpecSelect == SelectInit /\ [][SelectNext]_vars

(***************************************************************************)
(* build_debugging_prompt on every block list and every max_total_lines    *)
(***************************************************************************)
MaxBlocks == 2

MaxBudget == 16

BlockSizes == {0, 1, 5, 11, 12, 14}

PathA == <<"s","r","c","/","a",".","j","s">>

PathB == <<"l","i","b","/","b",".","p","y">>

\* a block as fetch_file_with_context returns it for a file of n lines
WindowBlock(n) ==
    [content |-> FileText(n), file_path |-> PathA, start_line |-> 1,
     end_line |-> n, target_line |-> 1]

\* a whole file of n lines ending in a newline, from line 3 on, without
\* target_line
WholeBlock(n) ==
    [content |-> FileTextNl(n), file_path |-> PathB, start_line |-> 3,
     end_line |-> n + 2]

\* a block of 13 empty lines
BlankBlock ==
    [content |-> [i \in 1..14 |-> ""], file_path |-> PathB, start_line |-> 1,
     end_line |-> 13, target_line |-> 0]

BlockPool ==
    {WindowBlock(n) : n \in BlockSizes} \cup {WholeBlock(n) : n \in BlockSizes}
    \cup {BlankBlock}

PromptPayloads ==
    { [message |-> <<"boom">>, stack |-> <<"">>],
      [message |-> <<"no context:", NoContextMarker>>, stack |-> TraceScenario1] }

PromptInit ==
    /\ pc = "build"
    /\ payload \in PromptPayloads
    /\ source_code_context \in SeqsUpTo(BlockPool, MaxBlocks)
    /\ max_total_lines \in 0..MaxBudget
    /\ repo_config_dict = NULL
    /\ stack_frames = <<>>
    /\ max_files = PipelineMaxFiles
    /\ relevant_frames = <<>>
    /\ idx = 0
    /\ elapsed_time = 0
    /\ normalized_path = UNBOUND
    /\ prompt = <<>>
    /\ result = NULL
    /\ log = NoLog
    /\ request = NoRequest
    /\ error_events = <<>>
    /\ error_analysis = <<>>
    /\ deliveries = <<>>
    /\ environ = {}

PromptNext ==
    \/ BuildPrompt
    \/ LlmAnswers
    \/ LlmFails

SpecPrompt == PromptInit /\ [][PromptNext]_vars

(***************************************************************************)
(* Properties of the fetch loop of perform_ai_analysis (Spec)              *)
(***************************************************************************)
AfterLoop == pc \in {"build", "call_llm", "done", "raised"}

\* number of fetches that returned a code block
FetchedCount ==
    Cardinality({k \in 1..Len(log.attempts) : log.attempts[k].outcome = "fetched"})

NothingRaised ==
    \A k \in 1..Len(log.attempts) : log.attempts[k].outcome # "raised"

\* C1: a fetch that returns None for one frame never keeps the following
\* frames from being attempted: as long as nothing raised, the frames are
\* attempted one after the other from the first, and the loop is left only
\* when the frames are exhausted, the budget is used up (elapsed >= 15) or
\* the early exit applies (index >= 2 and 2 blocks); at every moment the
\* code-block list holds exactly one block per successful fetch.
C1_FetchFailureIsolated ==
    /\ Len(source_code_context) = FetchedCount
    /\ \A k \in 1..Len(log.attempts) : log.attempts[k].frame = k - 1
    /\ NothingRaised =>
         /\ pc \in {"loop_head", "loop_body"} =>
              /\ Len(log.attempts) = idx
              /\ log.exit = "none"
         /\ (AfterLoop /\ log.attempts # <<>>) =>
              /\ log.exit \in {"exhausted", "budget", "enough"}
              /\ log.exit = "exhausted" => Len(log.attempts) = Len(relevant_frames)
              /\ log.exit = "budget" => elapsed_time >= GIT_FETCH_TOTAL_TIMEOUT
              /\ log.exit = "enough" =>
                   /\ Len(log.attempts) >= MIN_FILES_FOR_CONTEXT
                   /\ Len(source_code_context) >= MIN_FILES_FOR_CONTEXT

\* the fetch for the first of several frames failed, the later frames were
\* attempted and the one success is the one block of the list
C1_Witness ==
    /\ pc = "done"
    /\ Len(log.attempts) >= 3
    /\ log.attempts[1].outcome = "missed"
    /\ log.attempts[2].outcome = "missed"
    /\ log.attempts[3].outcome = "fetched"
    /\ Len(source_code_context) = 1

\* C2: an exception raised while normalizing or fetching a frame, the first
\* frame and an exception of normalize_path included, is logged and skipped:
\* the loop moves on past that frame and is never aborted by it.
C2_ExceptionSkipped ==
    \A k \in 1..Len(log.attempts) :
        log.attempts[k].outcome = "raised" =>
            /\ idx > log.attempts[k].frame
            /\ log.exit # "aborted"

\* C3: the elapsed time is checked before each frame: once it is >= 15 s
\* the loop body is not entered again (no normalization, no fetch), the loop
\* is left with the blocks gathered so far untouched, and these blocks are
\* what build_debugging_prompt receives; the run ends normally.
C3_BudgetStop ==
    /\ [](pc = "loop_body" => elapsed_time < GIT_FETCH_TOTAL_TIMEOUT)
    /\ [][(/\ pc = "loop_head"
           /\ idx < Len(relevant_frames)
           /\ elapsed_time >= GIT_FETCH_TOTAL_TIMEOUT)
          => (/\ pc' = "build"
              /\ log'.exit = "budget"
              /\ log'.attempts = log.attempts
              /\ UNCHANGED <<source_code_context, normalized_path, idx>>)]_vars
    /\ [][(pc = "build" /\ log.exit = "budget")
          => (/\ pc' = "call_llm"
              /\ source_code_context' = source_code_context
              /\ prompt' = build_debugging_prompt(payload.message, payload.stack,
                               source_code_context, PipelineMaxTotalLines))]_vars

\* the budget ran out with frames left and one block gathered, and the run
\* ended with a result
C3_Witness ==
    /\ pc = "done"
    /\ log.exit = "budget"
    /\ idx < Len(relevant_frames)
    /\ Len(source_code_context) = 1
    /\ result.confidence \in {"high", "medium", "low"}

\* C4: at the head of the loop, with frame number idx still to come, the loop
\* is left if and only if the budget is exhausted (elapsed >= 15) or both
\* idx >= 2 and at least 2 blocks are gathered; otherwise frame idx is
\* processed.
C4_EarlyExitRule ==
    [][(pc = "loop_head" /\ idx < Len(relevant_frames))
       => LET stop == \/ elapsed_time >= GIT_FETCH_TOTAL_TIMEOUT
                      \/ /\ idx >= MIN_FILES_FOR_CONTEXT
                         /\ Len(source_code_context) >= MIN_FILES_FOR_CONTEXT
          IN  /\ stop => pc' = "build" /\ log'.exit \in {"budget", "enough"}
              /\ ~stop => pc' = "loop_body" /\ idx' = idx]_vars

\* the loop stopped on the early-exit rule with budget and frames left,
\* after a run in which it went past index 2 with fewer than 2 blocks
C4_Witness ==
    /\ log.exit = "enough"
    /\ elapsed_time < GIT_FETCH_TOTAL_TIMEOUT
    /\ idx = 3
    /\ idx < Len(relevant_frames)
    /\ log.attempts[1].outcome = "missed"

(***************************************************************************)
(* Properties of the result of perform_ai_analysis (Spec)                  *)
(***************************************************************************)
\* C5: when _call_llm raises, perform_ai_analysis does not raise: it returns
\* the fallback record, its analysis made of the error message and the stack
\* trace of the event (with the note naming the failure), model "fallback",
\* confidence "low".
C5_FallbackOnLlmFailure ==
    log.llm = "failed" =>
        /\ pc = "done"
        /\ result # Raised
        /\ result.analysis.kind = "fallback"
        /\ DOMAIN result.analysis = {"kind", "message", "stack", "note"}
        /\ result.analysis.message = payload.message
        /\ result.analysis.stack = payload.stack
        /\ result.analysis.note \in LlmErrors
        /\ result.model = "fallback"
        /\ result.confidence = "low"

\* the model call failed after two code blocks had been gathered
C5_Witness ==
    /\ log.llm = "failed"
    /\ pc = "done"
    /\ Len(source_code_context) = 2

\* C6: perform_ai_analysis returns a result record for every event the API
\* can store, a null stack trace and a malformed repository configuration
\* included: no failure of parsing, selection, normalization, fetching or
\* prompt assembly leaves it.
C6_NeverRaises == pc # "raised" /\ result # Raised

\* offset of the source-context section in the prompt
SourceSectionOffset ==
    Len(InstructionsPart) + Len(ErrorMessagePart(payload.message))
        + Len(StackTracePart(payload.stack))

\* C7: when no code block was gathered, the source-context section of the
\* prompt is the header followed by the literal marker line, and the
\* confidence returned is "medium" (model answered) or "low" (fallback),
\* never "high".
C7_NoContextNeverHigh ==
    (pc \in {"call_llm", "done"} /\ source_code_context = <<>>) =>
        /\ prompt[SourceSectionOffset + 2] = [text |-> SourceContextHeader]
        /\ prompt[SourceSectionOffset + 4] = [text |-> NoContextMarker]
        /\ pc = "done" =>
             /\ result.confidence # "high"
             /\ log.llm = "answered" => result.confidence = "medium"
             /\ log.llm = "failed" => result.confidence = "low"

\* every fetch of a run over several frames failed and the model answered
C7_Witness ==
    /\ pc = "done"
    /\ source_code_context = <<>>
    /\ Len(log.attempts) >= 2
    /\ log.llm = "answered"
    /\ result.confidence = "medium"

(***************************************************************************)
(* Properties of the prompt builder (SpecPrompt)                           *)
(***************************************************************************)
RECURSIVE SumBlockLines(_, _)
\* line count of the first n blocks
SumBlockLines(blocks, n) ==
    IF n = 0 THEN 0 ELSE SumBlockLines(blocks, n - 1) + BlockLines(blocks[n])

\* number of leading blocks that fit the budget whole
FittingPrefix(blocks, maxl) ==
    CHOOSE k \in 0..Len(blocks) :
        /\ \A j \in 1..k : SumBlockLines(blocks, j) <= maxl
        /\ k < Len(blocks) => SumBlockLines(blocks, k + 1) > maxl

\* C8: the blocks rendered (the output of _limit_code_context) have at most
\* max_total_lines lines in total; they are the leading blocks that fit
\* whole, followed, when a block does not fit and the remaining budget is more
\* than 10 lines, by that block cut to its first `remaining` lines with
\* end_line = start_line + remaining - 1; every block after the first one that
\* does not fit is dropped.
C8_LineBudget ==
    LET blocks == source_code_context
        limited == _limit_code_context(blocks, max_total_lines)
        k == FittingPrefix(blocks, max_total_lines)
        remaining == max_total_lines - SumBlockLines(blocks, k)
    IN  /\ SumBlockLines(limited, Len(limited)) <= max_total_lines
        /\ SubSeq(limited, 1, Min(k, Len(limited))) = SubSeq(blocks, 1, k)
        /\ k = Len(blocks) => limited = blocks
        /\ (k < Len(blocks) /\ remaining > 10) =>
              /\ Len(limited) = k + 1
              /\ limited[k + 1].content =
                     JoinLines(SubSeq(SplitLines(blocks[k + 1].content), 1, remaining))
              /\ limited[k + 1].end_line = blocks[k + 1].start_line + remaining - 1
              /\ limited[k + 1].start_line = blocks[k + 1].start_line
              /\ limited[k + 1].file_path = blocks[k + 1].file_path
        /\ (k < Len(blocks) /\ remaining <= 10) => Len(limited) = k
        /\ pc \in {"call_llm", "done"} =>
              prompt = build_debugging_prompt(payload.message, payload.stack,
                                              blocks, max_total_lines)

\* a first block fits, the second is cut to the 11 lines left, and the prompt
\* was built
C8_Witness ==
    /\ pc = "call_llm"
    /\ Len(source_code_context) = 2
    /\ BlockLines(source_code_context[1]) = 5
    /\ BlockLines(source_code_context[2]) = 14
    /\ max_total_lines = 16
    /\ LET limited == _limit_code_context(source_code_context, max_total_lines)
       IN  Len(limited) = 2 /\ BlockLines(limited[2]) = 11

IsFileLine(line) == "file" \in DOMAIN line

\* C9: the prompt holds its sections in the fixed order instructions, ERROR
\* MESSAGE, STACK TRACE, SOURCE CODE CONTEXT, ANALYSIS REQUEST; the source
\* section is the literal marker line exactly when no block survives the line
\* budget, and otherwise one "--- File k: path ---" line per surviving block,
\* in list order, each followed by the line giving its line range.
C9_PromptLayout ==
    pc \in {"call_llm", "done"} =>
        LET limited == _limit_code_context(source_code_context, max_total_lines)
            e == Len(InstructionsPart)
            t == e + 3 + Len(payload.message) + 1
            c == t + 3 + Len(payload.stack) + 1
            a == Len(prompt) - Len(AnalysisRequestPart)
            files == SelectSeq(prompt, IsFileLine)
        IN  /\ SubSeq(prompt, 1, e) = InstructionsPart
            /\ SubSeq(prompt, e + 1, e + 3) = Plain(<<Rule, "ERROR MESSAGE", Rule>>)
            /\ SubSeq(prompt, e + 4, t - 1) = Plain(payload.message)
            /\ SubSeq(prompt, t + 1, t + 3) = Plain(<<Rule, "STACK TRACE", Rule>>)
            /\ SubSeq(prompt, t + 4, c - 1) = Plain(payload.stack)
            /\ SubSeq(prompt, c + 1, c + 3) = Plain(<<Rule, SourceContextHeader, Rule>>)
            /\ c + 3 < a
            /\ SubSeq(prompt, a + 1, a + 3) = Plain(<<Rule, "ANALYSIS REQUEST", Rule>>)
            /\ SubSeq(prompt, a + 1, Len(prompt)) = AnalysisRequestPart
            /\ (limited = <<>>) <=>
                   SubSeq(prompt, c + 4, a) = Plain(<<NoContextMarker, "">>)
            /\ files = [k \in 1..Len(limited) |->
                           [file |-> k, path |-> limited[k].file_path]]
            /\ \A i \in 1..Len(prompt) :
                  IsFileLine(prompt[i]) =>
                      prompt[i + 1].lines =
                          << limited[prompt[i].file].start_line,
                             limited[prompt[i].file].end_line >>

\* two blocks were given, the second was cut by the budget, and both are
\* rendered
C9_Witness ==
    /\ pc = "call_llm"
    /\ Len(source_code_context) = 2
    /\ Len(SelectSeq(prompt, IsFileLine)) = 2
    /\ _limit_code_context(source_code_context, max_total_lines) # source_code_context

(***************************************************************************)
(* Properties of get_relevant_files (SpecSelect)                           *)
(***************************************************************************)
\* C10: for every frame list and every max_files, 0 included,
\* get_relevant_files returns at most max_files frames and no two frames
\* with the same raw file_path.
C10_AtMostMaxFilesDistinct ==
    pc = "selected" =>
        /\ Len(relevant_frames) <= max_files
        /\ \A i, j \in 1..Len(relevant_frames) :
              i # j => relevant_frames[i].file_path # relevant_frames[j].file_path

(***************************************************************************)
(* Properties of the frame selection, continued (SpecSelect)               *)
(***************************************************************************)
\* the raw path holds a deny-list marker, whatever its case and separators
HoldsMarker(file_path) ==
    \E k \in 1..Len(excluded_patterns) :
        Contains(SlashNormalize(Lower(file_path)), excluded_patterns[k])

\* positions of the input frames that are free of markers and are the first
\* with their path
KeptPositions(frames) ==
    {i \in 1..Len(frames) :
        /\ ~HoldsMarker(frames[i].file_path)
        /\ \A j \in 1..(i - 1) : frames[j].file_path # frames[i].file_path}

\* the n-th of these positions, in input order
NthKept(frames, n) ==
    CHOOSE i \in KeptPositions(frames) :
        Cardinality({j \in KeptPositions(frames) : j < i}) = n - 1

\* C11: get_relevant_files returns no frame whose raw path holds a deny-list
\* marker (node_modules, site-packages, venv, dist, build, .git, ...) in any
\* case and with either separator; what it returns is, in input order, the
\* first occurrences of the marker-free paths, from the first one on.
C11_NoDependencyFrames ==
    pc = "selected" =>
        /\ \A k \in 1..Len(relevant_frames) :
              ~HoldsMarker(relevant_frames[k].file_path)
        /\ Len(relevant_frames) <= Cardinality(KeptPositions(stack_frames))
        /\ \A k \in 1..Len(relevant_frames) :
              relevant_frames[k] = stack_frames[NthKept(stack_frames, k)]

\* of three frames the first is under node_modules, the second under
\* Node_Modules written with backslashes, and only the third is returned
C11_Witness ==
    /\ pc = "selected"
    /\ max_files = 3
    /\ Len(stack_frames) = 3
    /\ stack_frames[1] = _parse_line(LineNodeModules)
    /\ stack_frames[2] = _parse_line(LineWindowsNodeModules)
    /\ stack_frames[3] = _parse_line(LineNodeApp)
    /\ relevant_frames = <<_parse_line(LineNodeApp)>>

(***************************************************************************)
(* parse_stack_trace on every trace of a few lines                         *)
(***************************************************************************)
MaxTraceLines == 3

\* the lines a trace is made of: frame lines of every format, a header, an
\* indented frame line, a blank line and an empty line
TraceLinePool == FrameLines \cup {LineHeader, LineIndented, " ", ""}

ParseInit ==
    /\ pc = "parse"
    /\ payload \in [message : {<<"boom">>},
                    stack : {NULL} \cup (SeqsUpTo(TraceLinePool, MaxTraceLines) \ {<<>>})]
    /\ stack_frames = <<>>
    /\ repo_config_dict = NULL
    /\ max_files = PipelineMaxFiles
    /\ relevant_frames = <<>>
    /\ idx = 0
    /\ elapsed_time = 0
    /\ normalized_path = UNBOUND
    /\ source_code_context = <<>>
    /\ max_total_lines = PipelineMaxTotalLines
    /\ prompt = <<>>
    /\ result = NULL
    /\ log = NoLog
    /\ request = NoRequest
    /\ error_events = <<>>
    /\ error_analysis = <<>>
    /\ deliveries = <<>>
    /\ environ = {}

Parse ==
    /\ pc = "parse"
    /\ stack_frames' = parse_stack_trace(payload.stack)
    /\ pc' = "parsed"
    /\ UNCHANGED <<error_events, error_analysis, deliveries, environ,
                   request, payload, repo_config_dict, max_files, relevant_frames, idx,
                   elapsed_time, normalized_path, source_code_context,
                   max_total_lines, prompt, result, log>>

ParseNext == Parse

SpecParse == ParseInit /\ [][ParseNext]_vars

(***************************************************************************)
(* Properties of parse_stack_trace (SpecParse)                             *)
(***************************************************************************)
\* the lines of the trace given to the parser (none for None and for "")
GivenLines == IF Truthy(payload.stack) THEN payload.stack ELSE <<>>

\* positions of the lines that are not blank and match one of the formats
FramePositions ==
    {i \in 1..Len(GivenLines) :
        /\ StripLine(GivenLines[i]) # ""
        /\ TraceLineMatches(StripLine(GivenLines[i])) # NoMatch}

NthFramePosition(n) ==
    CHOOSE i \in FramePositions :
        Cardinality({j \in FramePositions : j < i}) = n - 1

\* C12: parse_stack_trace returns one frame for each non-blank line that
\* matches a format and none for the other lines, in the order of the lines,
\* each with the trimmed line as raw_line, and every frame has a line number
\* >= 1.
C12_FramesInOrderPositive ==
    pc = "parsed" =>
        /\ Len(stack_frames) = Cardinality(FramePositions)
        /\ \A k \in 1..Len(stack_frames) :
              /\ stack_frames[k].raw_line = StripLine(GivenLines[NthFramePosition(k)])
              /\ stack_frames[k].line_number >= 1

\* C13: the trace made of the line `File "/home/u/proj/app.py", line 42, in
\* handler` gives exactly one frame, with that path, line_number 42 and
\* function_name "handler".
C13_PythonFrameHasFunctionName ==
    (pc = "parsed" /\ payload.stack = <<LinePythonApp>>) =>
        /\ Len(stack_frames) = 1
        /\ stack_frames[1].file_path =
               <<"/","h","o","m","e","/","u","/","p","r","o","j","/","a","p","p",".","p","y">>
        /\ stack_frames[1].line_number = 42
        /\ stack_frames[1].function_name = <<"h","a","n","d","l","e","r">>

(***************************************************************************)
(* normalize_path on a pool of raw paths and repository configurations,    *)
(* applied once and then to its own result                                 *)
(***************************************************************************)
\* /home/u/proj/src/app.js
RawUnixSrc == <<"/","h","o","m","e","/","u","/","p","r","o","j","/","s","r","c","/","a","p","p",".","j","s">>

\* /home/u/proj/app.py
RawUnixShallow == <<"/","h","o","m","e","/","u","/","p","r","o","j","/","a","p","p",".","p","y">>

\* C:\proj\lib\db.js
RawWindows == <<"C",":","\\","p","r","o","j","\\","l","i","b","\\","d","b",".","j","s">>

\* Main.java
RawBare == <<"M","a","i","n",".","j","a","v","a">>

\* /srv/node_modules/express/lib/router.js
RawNodeModules == <<"/","s","r","v","/","n","o","d","e","_","m","o","d","u","l","e","s","/","e","x","p","r","e","s","s","/","l","i","b","/","r","o","u","t","e","r",".","j","s">>

\* lib/util.py
RawRelative == <<"l","i","b","/","u","t","i","l",".","p","y">>

\*  build/dist/x.js 
RawBuildDist == <<" ","b","u","i","l","d","/","d","i","s","t","/","x",".","j","s"," ">>

\* /a/b/c/d/e/f.js
RawDeep == <<"/","a","/","b","/","c","/","d","/","e","/","f",".","j","s">>

\* env/.git/x.py
RawEnvGit == <<"e","n","v","/",".","g","i","t","/","x",".","p","y">>

\* /home/u/proj/core/a/b/c/d.js
RawCoreDeep == <<"/","h","o","m","e","/","u","/","p","r","o","j","/","c","o","r","e","/","a","/","b","/","c","/","d",".","j","s">>

\* /opt/core/x.js
RawCoreShallow == <<"/","o","p","t","/","c","o","r","e","/","x",".","j","s">>

\* /home/u/proj/core/a/d.js
RawCoreMiddle == <<"/","h","o","m","e","/","u","/","p","r","o","j","/","c","o","r","e","/","a","/","d",".","j","s">>

\* /home/u/core/src/x.js
RawCoreSrc == <<"/","h","o","m","e","/","u","/","c","o","r","e","/","s","r","c","/","x",".","j","s">>

\* src/proj/x.js
RawSrcProj == <<"s","r","c","/","p","r","o","j","/","x",".","j","s">>

RawPaths ==
    {RawUnixSrc, RawUnixShallow, RawWindows, RawBare,
     RawNodeModules, RawRelative, RawBuildDist, RawDeep,
     RawEnvGit, RawCoreDeep, RawCoreShallow, RawCoreMiddle,
     RawCoreSrc, RawSrcProj}

CoreName == <<"c","o","r","e">>

SrcName == <<"s","r","c">>

NormalizeConfigs ==
    { NULL,
      [EmptyDict EXCEPT !.owner = OwnerName, !.repo = ProjName],
      [EmptyDict EXCEPT !.owner = OwnerName, !.repo = <<"z","z","z">>,
                        !.root_dir = <<"l","i","b">>],
      [EmptyDict EXCEPT !.root_dir = SrcName],
      [EmptyDict EXCEPT !.root_dir = CoreName],
      [EmptyDict EXCEPT !.root_hints = <<CoreName, SrcName>>] }

NormalizeInit ==
    /\ pc = "raw"
    /\ relevant_frames \in {<<StackFrame(x, 1, "")>> : x \in RawPaths}
    /\ repo_config_dict \in NormalizeConfigs
    /\ normalized_path = UNBOUND
    /\ payload = [message |-> <<"boom">>, stack |-> <<"">>]
    /\ stack_frames = <<>>
    /\ max_files = PipelineMaxFiles
    /\ idx = 0
    /\ elapsed_time = 0
    /\ source_code_context = <<>>
    /\ max_total_lines = PipelineMaxTotalLines
    /\ prompt = <<>>
    /\ result = NULL
    /\ log = NoLog
    /\ request = NoRequest
    /\ error_events = <<>>
    /\ error_analysis = <<>>
    /\ deliveries = <<>>
    /\ environ = {}

\* normalize_path(frame.file_path, repo_config_dict)
Normalize ==
    /\ pc = "raw"
    /\ normalized_path' = normalize_path(relevant_frames[1].file_path, repo_config_dict)
    /\ pc' = "normalized"
    /\ UNCHANGED <<error_events, error_analysis, deliveries, environ,
                   request, payload, repo_config_dict, stack_frames, max_files,
                   relevant_frames, idx, elapsed_time, source_code_context,
                   max_total_lines, prompt, result, log>>

\* normalize_path applied to the path it returned
Renormalize ==
    /\ pc = "normalized"
    /\ normalized_path' = normalize_path(normalized_path, repo_config_dict)
    /\ pc' = "renormalized"
    /\ UNCHANGED <<error_events, error_analysis, deliveries, environ,
                   request, payload, repo_config_dict, stack_frames, max_files,
                   relevant_frames, idx, elapsed_time, source_code_context,
                   max_total_lines, prompt, result, log>>

NormalizeNext ==
    \/ Normalize
    \/ Renormalize

SpecNormalize == NormalizeInit /\ [][NormalizeNext]_vars

(***************************************************************************)
(* Properties of normalize_path (SpecNormalize)                            *)
(***************************************************************************)
\* C14: normalize_path is idempotent: applied to the path it returned, under
\* the same configuration, it returns that path again.
C14_NormalizeIdempotent ==
    pc = "renormalized" =>
        normalized_path = normalize_path(relevant_frames[1].file_path, repo_config_dict)

\* the hints the caller supplied: [root_dir], else root_hints
SuppliedHints ==
    IF repo_config_dict = NULL THEN <<>>
    ELSE IF repo_config_dict.root_dir # NULL THEN <<repo_config_dict.root_dir>>
    ELSE IF repo_config_dict.root_hints # NULL THEN repo_config_dict.root_hints
    ELSE <<>>

\* the configured repository name occurs in the raw path
RepoNameMatches ==
    /\ repo_config_dict # NULL
    /\ repo_config_dict.repo # NULL
    /\ Contains(Lower(relevant_frames[1].file_path), Lower(repo_config_dict.repo))

\* positions of the segments of the raw path that equal a supplied hint
HintPositions ==
    LET parts == Split(relevant_frames[1].file_path, "/")
    IN  {i \in 1..Len(parts) :
            \E k \in 1..Len(SuppliedHints) : parts[i] = SuppliedHints[k]}

\* C15: for a Unix-absolute raw path with a segment equal to a supplied root
\* hint and no repository-name match, normalize_path returns the path from
\* the first such segment onward, however many segments precede or follow it.
C15_FromFirstHintSegment ==
    (/\ pc = "normalized"
     /\ relevant_frames[1].file_path[1] = "/"
     /\ ~RepoNameMatches
     /\ HintPositions # {}) =>
        LET parts == Split(relevant_frames[1].file_path, "/")
            first == CHOOSE i \in HintPositions : \A j \in HintPositions : i <= j
        IN  normalized_path = Join(SubSeq(parts, first, Len(parts)), "/")

(***************************************************************************)
(* GitFetcher on its own: one fetcher is built from a RepoConfig and asked *)
(* once for a file, with or without a line number                          *)
(***************************************************************************)
MaxFileLines == 4

MaxLineNumber == 7

MaxContext == 2

FetchResponses ==
    {[kind |-> "ok", text |-> FileText(n)] : n \in 0..MaxFileLines}
    \cup {[kind |-> "ok", text |-> FileTextNl(2)]}
    \cup {[kind |-> k, text |-> <<"">>] : k \in {"empty_body"} \cup RaisingKinds
                                                 \cup {"not_found"}}
    \cup {[kind |-> k, text |-> <<"<html>">>] :
             k \in {"bad_content_type", "bad_json", "no_content_field"}}

\* branch and commit_sha are None, "" or a name; line_number, an
\* Optional[int], is <<>> for None and <<n>> for n
FetchInit ==
    /\ pc = "fetch"
    /\ \E branch \in {NULL, <<"">>, <<"dev">>},
          commit_sha \in {NULL, <<"">>, <<"abc123">>},
          provider \in {Github, Gitlab, <<"s","v","n">>},
          response \in FetchResponses,
          line_number \in {NULL} \cup {<<n>> : n \in 0..MaxLineNumber},
          context_lines \in 0..MaxContext :
            request = [branch |-> branch,
                       commit_sha |-> commit_sha,
                       config |-> RepoConfig(OwnerName, ProjName, branch,
                                             commit_sha, provider),
                       response |-> response,
                       file_path |-> PathA,
                       line_number |-> line_number,
                       context_lines |-> context_lines,
                       ref |-> NULL,
                       raised |-> FALSE,
                       file_data |-> NULL,
                       returned |-> NULL]
    /\ payload = [message |-> <<"boom">>, stack |-> NULL]
    /\ repo_config_dict = NULL
    /\ stack_frames = <<>>
    /\ max_files = PipelineMaxFiles
    /\ relevant_frames = <<>>
    /\ idx = 0
    /\ elapsed_time = 0
    /\ normalized_path = UNBOUND
    /\ source_code_context = <<>>
    /\ max_total_lines = PipelineMaxTotalLines
    /\ prompt = <<>>
    /\ result = NULL
    /\ log = NoLog
    /\ error_events = <<>>
    /\ error_analysis = <<>>
    /\ deliveries = <<>>
    /\ environ = {}

\* fetch_file(file_path) and fetch_file_with_context(file_path, line_number,
\* context_lines) on the fetcher: the ref goes out with the request when the
\* provider is known; no exception leaves either function
FetchCall ==
    /\ pc = "fetch"
    /\ LET config == request.config
           provider == config.provider
       IN  request' =
             [request EXCEPT
                !.ref = IF provider \in {Github, Gitlab} THEN Ref(config) ELSE NULL,
                !.raised = (fetch_file(provider, request.response) = Raised),
                !.file_data = fetch_file(provider, request.response),
                !.returned =
                    IF request.line_number = NULL
                    THEN fetch_whole_file(provider, request.response,
                                          request.file_path)
                    ELSE fetch_file_with_context(provider, request.response,
                                                 request.file_path,
                                                 request.line_number[1],
                                                 request.context_lines)]
    /\ pc' = "fetched"
    /\ UNCHANGED <<error_events, error_analysis, deliveries, environ,
                   payload, repo_config_dict, stack_frames, max_files,
                   relevant_frames, idx, elapsed_time, normalized_path,
                   source_code_context, max_total_lines, prompt, result, log>>

FetchNext == FetchCall

SpecFetch == FetchInit /\ [][FetchNext]_vars

\* the call has returned and the provider answered with the file
FetchedFile ==
    /\ pc = "fetched"
    /\ request.config.provider \in {Github, Gitlab}
    /\ request.response.kind = "ok"

\* C16: for a successfully fetched file of T lines, fetch_file_with_context
\* with line L and context C returns start_line = max(1, L - C),
\* end_line = min(T, L + C), target_line = L and as content exactly the
\* lines start_line..end_line of the file; with no line given it returns the
\* whole file with start_line = 1 and end_line = T.
C16_WindowClippedToFile ==
    FetchedFile =>
        LET lines == SplitLines(request.response.text)
            T == Len(lines)
            C == request.context_lines
            block == request.returned
        IN  /\ block # NULL
            /\ block.file_path = request.file_path
            /\ IF request.line_number = NULL
               THEN /\ block.start_line = 1
                    /\ block.end_line = T
                    /\ block.content = request.response.text
                    /\ "target_line" \notin DOMAIN block
               ELSE LET L == request.line_number[1]
                        from == IF L - C > 1 THEN L - C ELSE 1
                        to == IF L + C < T THEN L + C ELSE T
                    IN  /\ block.start_line = from
                        /\ block.end_line = to
                        /\ block.target_line = L
                        /\ block.end_line <= T
                        /\ block.content =
                             IF from > to THEN <<"">>
                             ELSE [i \in 1..(to - from + 1) |-> lines[from + i - 1]]

\* a window cut at both ends of the file, and a whole file
C16_Witness ==
    /\ FetchedFile
    /\ request.response.text = FileText(MaxFileLines)
    /\ request.line_number = <<MaxFileLines - 1>>
    /\ request.context_lines = MaxContext
    /\ request.returned.start_line = MaxFileLines - 1 - MaxContext
    /\ request.returned.end_line = MaxFileLines
    /\ request.returned.content = SubSeq(FileText(MaxFileLines), MaxFileLines - 1 - MaxContext, MaxFileLines)

\* C17: every code block produced by fetch_file_with_context satisfies
\* end_line >= start_line >= 1, for every fetched file content (an empty file
\* included) and every reported line number (one beyond the file's length
\* plus the context size included).
C17_BlockRangeWellFormed ==
    (pc = "fetched" /\ request.returned # NULL) =>
        /\ request.returned.start_line >= 1
        /\ request.returned.end_line >= request.returned.start_line

\* C18: fetch_file and fetch_file_with_context return None, and raise
\* nothing, for a 404 response, any other non-success status, a timeout, a
\* network error, an empty body, an unexpected content type, an unparsable
\* body and a body without a content field, whichever provider is configured.
C18_EveryFailureIsNone ==
    (pc = "fetched" /\ request.response.kind # "ok") =>
        /\ ~request.raised
        /\ request.file_data = NULL
        /\ request.returned = NULL

\* C19: when the configured provider is neither "github" nor "gitlab" the
\* fetch raises to its caller instead of returning None, and it raises in no
\* other case.
C19_UnknownProviderRaises ==
    pc = "fetched" =>
        (request.raised <=> request.config.provider \notin {Github, Gitlab})

\* C20: the ref used for a fetch is commit_sha when it is present and
\* otherwise branch, a RepoConfig built with neither branch nor commit_sha
\* has branch = "main", and so the ref sent to the provider is never empty
\* or None, whatever branch and commit_sha the caller supplies.
C20_RefNeverEmpty ==
    LET commit_given == request.commit_sha # NULL /\ request.commit_sha # <<"">>
        branch_given == request.branch # NULL /\ request.branch # <<"">>
    IN  /\ pc \in {"fetch", "fetched"} =>
              /\ (~commit_given /\ ~branch_given) => request.config.branch = <<"main">>
              /\ (commit_given \/ branch_given) => request.config.branch = request.branch
              /\ request.config.commit_sha = request.commit_sha
        /\ (pc = "fetched" /\ request.config.provider \in {Github, Gitlab}) =>
              /\ request.ref = IF commit_given THEN request.commit_sha
                               ELSE IF branch_given THEN request.branch
                               ELSE <<"main">>
              /\ request.ref # NULL
              /\ request.ref # <<"">>

\* both a branch and a commit were supplied and the commit went out
C20_Witness ==
    /\ pc = "fetched"
    /\ request.config.provider = Gitlab
    /\ request.branch = <<"dev">>
    /\ request.commit_sha = <<"abc123">>
    /\ request.ref = <<"abc123">>

(***************************************************************************)
(* Properties of the blocks gathered by perform_ai_analysis (Spec)         *)
(***************************************************************************)
\* C25: after any run of the fetch loop the gathered code-block list has at
\* most MIN_FILES_FOR_CONTEXT = 2 entries, for every number of selected
\* frames (up to max_files = 5) and every pattern of fetch successes and
\* failures.
C25_AtMostTwoBlocks ==
    /\ Len(source_code_context) <= MIN_FILES_FOR_CONTEXT
    /\ FetchedCount = Len(source_code_context)

\* the loop stopped with two blocks after three attempts, frames left over
C25_Witness ==
    /\ AfterLoop
    /\ Len(relevant_frames) = PipelineMaxFiles
    /\ Len(source_code_context) = MIN_FILES_FOR_CONTEXT
    /\ Len(log.attempts) = 3
    /\ log.attempts[2].outcome = "missed"
    /\ idx < Len(relevant_frames)

\* C26: within one invocation of perform_ai_analysis no repository file is
\* fetched more than once: the normalized paths passed to
\* fetch_file_with_context are pairwise distinct, so no two code blocks in
\* the prompt refer to the same file_path.
C26_NoFileFetchedTwice ==
    \A i, j \in 1..Len(source_code_context) :
        source_code_context[i].file_path = source_code_context[j].file_path => i = j

\* C27: whenever the model call succeeds and at least one code block is
\* rendered into the prompt, the returned confidence is "high", whatever
\* text the error message, the stack trace and the fetched code contain;
\* confidence is "high" exactly when source context was rendered.
C27_HighIffContextRendered ==
    (pc = "done" /\ log.llm = "answered") =>
        (result.confidence = "high"
            <=> _limit_code_context(source_code_context, max_total_lines) # <<>>)

\* C28: in perform_ai_analysis the 500-line budget is never binding: every
\* frame carries a line number, every gathered block is a window of at most
\* 2*15+1 = 31 lines, at most 2 blocks are gathered, and _limit_code_context
\* returns the gathered list unchanged.
C28_BudgetNeverBinding ==
    /\ \A k \in 1..Len(relevant_frames) : relevant_frames[k].line_number \in Nat
    /\ \A k \in 1..Len(source_code_context) :
          /\ BlockLines(source_code_context[k]) <= 2 * ContextLines + 1
          /\ "target_line" \in DOMAIN source_code_context[k]
    /\ AfterLoop =>
          _limit_code_context(source_code_context, max_total_lines)
              = source_code_context

\* two windows were gathered, one of them cut out of a longer file
C28_Witness ==
    /\ pc = "call_llm"
    /\ Len(source_code_context) = 2
    /\ \E k \in 1..2 :
          /\ BlockLines(source_code_context[k]) > ContextLines
          /\ source_code_context[k].end_line < 40

\* the raw path as normalize_path first sees it: trimmed, with forward
\* slashes
TrimmedRaw == SlashNormalize(Strip(relevant_frames[1].file_path))

\* C29: normalize_path only ever removes a prefix: its result is a suffix of
\* the input after trimming whitespace and converting backslashes to forward
\* slashes, with nothing reordered, dropped from inside or added, and the
\* result contains no backslash.
C29_OnlyRemovesPrefix ==
    pc \in {"normalized", "renormalized"} =>
        /\ Len(normalized_path) <= Len(TrimmedRaw)
        /\ \A i \in 1..Len(normalized_path) :
              normalized_path[i]
                  = TrimmedRaw[Len(TrimmedRaw) - Len(normalized_path) + i]
        /\ \A i \in 1..Len(normalized_path) : normalized_path[i] # "\\"

\* a Windows path lost its drive and directories and had its separators
\* converted
C29_Witness ==
    /\ pc = "normalized"
    /\ relevant_frames[1].file_path = RawWindows
    /\ normalized_path = <<"l","i","b","/","d","b",".","j","s">>

(***************************************************************************)
(* Properties of the frame selection, the reasons for a drop (SpecSelect)  *)
(***************************************************************************)
\* a directory segment of the raw path equals a deny-list marker
DirectoryIsMarker(file_path) ==
    LET parts == Split(SlashNormalize(Lower(file_path)), "/")
    IN  \E i \in 1..(Len(parts) - 1) :
            \E k \in 1..Len(excluded_patterns) : parts[i] = excluded_patterns[k]

\* C30: get_relevant_files drops a frame only because a directory segment
\* of its raw path equals a deny-list marker, because its file_path
\* duplicates an earlier retained frame, or because max_files frames are
\* already retained; a frame of the application's own code whose path merely
\* holds a marker inside a segment or file name ("src/environment.js") is
\* retained.
C30_DroppedOnlyForThreeReasons ==
    pc = "selected" =>
        \A i \in 1..Len(stack_frames) :
            \/ \E k \in 1..Len(relevant_frames) :
                  relevant_frames[k].file_path = stack_frames[i].file_path
            \/ DirectoryIsMarker(stack_frames[i].file_path)
            \/ Len(relevant_frames) >= max_files

(***************************************************************************)
(* celery/tasks.py: analyze_error_event, the task the API enqueues for an  *)
(* event, with the error_events and error_analysis tables, the queue and   *)
(* the workers' environment.  A delivery is one message of the queue:      *)
(* pc "queued" (waiting for a worker), "checked" (a worker ran the task up *)
(* to the existence check) or "ended"; retries is request.retries.         *)
(***************************************************************************)
\* task_max_retries=3, also Task.max_retries of a task that sets none
task_max_retries == 3

MaxDeliveries == 2

\* the stack traces of the stored event, and the frames perform_ai_analysis
\* selects from each (Step 1 and the head of Step 2)
TaskTraces == {NULL, TraceScenario1}

RelevantFramesOf ==
    [stack \in TaskTraces |->
        get_relevant_files(parse_stack_trace(stack), PipelineMaxFiles)]

\* mutant: the explicit token is looked at last
_create_repo_config_environment_first(repo_config, project_key, env) ==
    LET UpperChar(c) ==
            IF \E i \in 1..Len(LowerChars) : LowerChars[i] = c
            THEN UpperChars[CHOOSE i \in 1..Len(LowerChars) : LowerChars[i] = c]
            ELSE c
        env_var_name ==
            [i \in 1..Len(project_key) |->
                IF project_key[i] = "-" THEN "_" ELSE UpperChar(project_key[i])]
            \o <<"_","T","O","K","E","N">>
        getenv(name) ==
            IF \E p \in env : p[1] = name
            THEN (CHOOSE p \in env : p[1] = name)[2]
            ELSE NULL
        access_token ==
            IF Truthy(getenv(env_var_name)) THEN getenv(env_var_name)
            ELSE IF Truthy(getenv(<<"G","I","T","H","U","B","_","T","O","K","E","N">>))
                 THEN getenv(<<"G","I","T","H","U","B","_","T","O","K","E","N">>)
            ELSE repo_config.access_token
        config == RepoConfig(repo_config.owner, repo_config.repo, repo_config.branch,
                             repo_config.commit_sha, ProviderOf(repo_config))
    IN  [owner |-> config.owner, repo |-> config.repo, branch |-> config.branch,
         commit_sha |-> config.commit_sha, provider |-> config.provider,
         access_token |-> access_token]

\* _create_repo_config(repo_config_dict, project_key): the token is the
\* access_token of the dict when truthy, else os.getenv of
\* <PROJECT_KEY>_TOKEN, else os.getenv("GITHUB_TOKEN"); env is a set of
\* <<name, value>> pairs
_create_repo_config(repo_config, project_key, env) ==
    LET UpperChar(c) ==
            IF \E i \in 1..Len(LowerChars) : LowerChars[i] = c
            THEN UpperChars[CHOOSE i \in 1..Len(LowerChars) : LowerChars[i] = c]
            ELSE c
        env_var_name ==
            [i \in 1..Len(project_key) |->
                IF project_key[i] = "-" THEN "_" ELSE UpperChar(project_key[i])]
            \o <<"_","T","O","K","E","N">>
        getenv(name) ==
            IF \E p \in env : p[1] = name
            THEN (CHOOSE p \in env : p[1] = name)[2]
            ELSE NULL
        access_token ==
            IF Truthy(repo_config.access_token) THEN repo_config.access_token
            ELSE IF Truthy(getenv(env_var_name)) THEN getenv(env_var_name)
            ELSE getenv(<<"G","I","T","H","U","B","_","T","O","K","E","N">>)
        config == RepoConfig(repo_config.owner, repo_config.repo, repo_config.branch,
                             repo_config.commit_sha, ProviderOf(repo_config))
    IN  [owner |-> config.owner, repo |-> config.repo, branch |-> config.branch,
         commit_sha |-> config.commit_sha, provider |-> config.provider,
         access_token |-> access_token]

\* mutant: the task is sent back to the queue whatever its retry count
retry_unbounded(delivery) ==
    [delivery EXCEPT !.pc = "queued"]

\* `raise self.retry(exc=exc)`: the task goes back to the queue with
\* request.retries + 1, or fails for good when that exceeds max_retries
retry(delivery) ==
    IF delivery.retries + 1 > task_max_retries
    THEN [delivery EXCEPT !.pc = "ended", !.status = "failure",
                          !.reason = "max_retries_exceeded"]
    ELSE [delivery EXCEPT !.pc = "queued", !.retries = @ + 1]

\* no event is stored yet; the queue is empty or holds a message for id 1,
\* which has no row until an event is stored; each of the two token
\* variables of the environment is unset, empty or set
TaskInit ==
    /\ pc = "task"
    /\ error_events = <<>>
    /\ error_analysis = <<>>
    /\ deliveries \in
          {<<>>,
           <<[error_event_id |-> 1, pc |-> "queued", retries |-> 0,
              status |-> "none", reason |-> "none", analysed |-> FALSE,
              access_token |-> UNBOUND, headers |-> {}]>>}
    /\ \E project_token \in {NULL, <<"">>, <<"project-token">>},
          github_token \in {NULL, <<"">>, <<"github-token">>} :
            environ =
                {<<<<"D","E","B","U","G","_","A","I","_","T","O","K","E","N">>, t>> :
                     t \in {project_token} \ {NULL}}
                \cup {<<<<"G","I","T","H","U","B","_","T","O","K","E","N">>, t>> :
                     t \in {github_token} \ {NULL}}
    /\ payload \in [message : {<<"boom">>}, stack : TaskTraces]
    /\ repo_config_dict = NULL
    /\ stack_frames = <<>>
    /\ max_files = PipelineMaxFiles
    /\ relevant_frames = <<>>
    /\ idx = 0
    /\ elapsed_time = 0
    /\ normalized_path = UNBOUND
    /\ source_code_context = <<>>
    /\ max_total_lines = PipelineMaxTotalLines
    /\ prompt = <<>>
    /\ result = NULL
    /\ log = NoLog
    /\ request = NoRequest

\* POST /api/v1/events: the event is stored and, when its status code is
\* truthy and >= 400, one analysis task is enqueued for it
CreateEvent ==
    /\ error_events = <<>>
    /\ \E status_code \in {NULL, <<404>>, <<500>>},
          repo_config \in
              {NULL} \cup
              {[owner |-> OwnerName, repo |-> ProjName, branch |-> NULL,
                commit_sha |-> NULL, provider |-> provider, root_dir |-> NULL,
                root_hints |-> NULL, access_token |-> access_token] :
                  provider \in {NULL, Gitlab},
                  access_token \in {NULL, <<"">>, <<"config-token">>}} :
         /\ error_events' =
                <<[status_code |-> status_code,
                   project_key |-> <<"d","e","b","u","g","-","a","i">>,
                   repo_config |-> repo_config]>>
         /\ deliveries' =
                IF status_code # NULL /\ status_code[1] >= 400
                THEN Append(deliveries,
                            [error_event_id |-> 1, pc |-> "queued", retries |-> 0,
                             status |-> "none", reason |-> "none",
                             analysed |-> FALSE, access_token |-> UNBOUND,
                             headers |-> {}])
                ELSE deliveries
    /\ UNCHANGED <<error_analysis, environ, pc, payload, repo_config_dict,
                   stack_frames, max_files, relevant_frames, idx, elapsed_time,
                   normalized_path, source_code_context, max_total_lines, prompt,
                   result, log, request>>

\* task_acks_late, task_reject_on_worker_lost: a message is acknowledged
\* only when its task has ended, so the broker can hand a message that a
\* worker is still running to another worker
Redeliver ==
    /\ Len(deliveries) < MaxDeliveries
    /\ \E d \in 1..Len(deliveries) :
         /\ deliveries[d].pc = "checked"
         /\ deliveries' =
                Append(deliveries,
                       [error_event_id |-> deliveries[d].error_event_id,
                        pc |-> "queued", retries |-> deliveries[d].retries,
                        status |-> "none", reason |-> "none", analysed |-> FALSE,
                        access_token |-> UNBOUND, headers |-> {}])
    /\ UNCHANGED <<error_events, error_analysis, environ, pc, payload,
                   repo_config_dict, stack_frames, max_files, relevant_frames,
                   idx, elapsed_time, normalized_path, source_code_context,
                   max_total_lines, prompt, result, log, request>>

\* mutant: the task analyses what the API enqueues, status codes from 400
LookupFromStatus400 ==
    /\ \E d \in 1..Len(deliveries) :
         LET delivery == deliveries[d]
             Skipped(reason) ==
                 [delivery EXCEPT !.pc = "ended", !.status = "skipped",
                                  !.reason = reason]
         IN  /\ delivery.pc = "queued"
             /\ deliveries' =
                  [deliveries EXCEPT ![d] =
                     IF delivery.error_event_id \notin 1..Len(error_events)
                     THEN Skipped("error_event_not_found")
                     ELSE IF \/ error_events[delivery.error_event_id].status_code = NULL
                             \/ error_events[delivery.error_event_id].status_code[1] < 400
                     THEN Skipped("status_code_too_low")
                     ELSE IF \E a \in 1..Len(error_analysis) :
                               error_analysis[a].error_event_id = delivery.error_event_id
                     THEN Skipped("analysis_exists")
                     ELSE [delivery EXCEPT !.pc = "checked"]]
    /\ UNCHANGED <<error_events, error_analysis, environ, pc, payload,
                   repo_config_dict, stack_frames, max_files, relevant_frames,
                   idx, elapsed_time, normalized_path, source_code_context,
                   max_total_lines, prompt, result, log, request>>

\* analyze_error_event up to its existence check: the event is looked up,
\* its status code tested, an existing analysis looked for; each of the
\* three can end the task as "skipped"
Lookup ==
    /\ \E d \in 1..Len(deliveries) :
         LET delivery == deliveries[d]
             Skipped(reason) ==
                 [delivery EXCEPT !.pc = "ended", !.status = "skipped",
                                  !.reason = reason]
         IN  /\ delivery.pc = "queued"
             /\ deliveries' =
                  [deliveries EXCEPT ![d] =
                     IF delivery.error_event_id \notin 1..Len(error_events)
                     THEN Skipped("error_event_not_found")
                     ELSE IF \/ error_events[delivery.error_event_id].status_code = NULL
                             \/ error_events[delivery.error_event_id].status_code[1] < 500
                     THEN Skipped("status_code_too_low")
                     ELSE IF \E a \in 1..Len(error_analysis) :
                               error_analysis[a].error_event_id = delivery.error_event_id
                     THEN Skipped("analysis_exists")
                     ELSE [delivery EXCEPT !.pc = "checked"]]
    /\ UNCHANGED <<error_events, error_analysis, environ, pc, payload,
                   repo_config_dict, stack_frames, max_files, relevant_frames,
                   idx, elapsed_time, normalized_path, source_code_context,
                   max_total_lines, prompt, result, log, request>>

\* mutant: error_event_id has no unique index
AnalyseAndStoreWithoutUniqueIndex ==
    /\ \E d \in 1..Len(deliveries), outcome \in {"returns", "raises"} :
         LET delivery == deliveries[d]
             event == error_events[delivery.error_event_id]
             repo_config ==
                 IF \/ event.repo_config = NULL
                    \/ RelevantFramesOf[payload.stack] = <<>>
                 THEN NULL
                 ELSE _create_repo_config(event.repo_config, event.project_key,
                                          environ)
             headers(config) ==
                 IF ~Truthy(config.access_token) THEN {}
                 ELSE IF config.provider = Github
                 THEN {<<"Authorization", <<"token ">> \o config.access_token>>,
                       <<"Accept", <<"application/vnd.github.v3+json">>>>}
                 ELSE IF config.provider = Gitlab
                 THEN {<<"PRIVATE-TOKEN", config.access_token>>}
                 ELSE {}
             analysed(config) ==
                 IF config = NULL
                 THEN [delivery EXCEPT !.analysed = TRUE]
                 ELSE [delivery EXCEPT !.analysed = TRUE,
                                       !.access_token = config.access_token,
                                       !.headers = headers(config)]
         IN  /\ delivery.pc = "checked"
             /\ \E config \in {repo_config} : \E after \in {analysed(config)} :
                  IF outcome = "raises"
                  THEN /\ deliveries' = [deliveries EXCEPT ![d] = retry(after)]
                       /\ error_analysis' = error_analysis
                  ELSE /\ error_analysis' =
                            Append(error_analysis,
                                   [id |-> Len(error_analysis) + 1,
                                    error_event_id |-> delivery.error_event_id])
                       /\ deliveries' =
                            [deliveries EXCEPT ![d] =
                                [after EXCEPT !.pc = "ended", !.status = "success",
                                              !.reason = "none"]]
    /\ UNCHANGED <<error_events, environ, pc, payload, repo_config_dict,
                   stack_frames, max_files, relevant_frames, idx, elapsed_time,
                   normalized_path, source_code_context, max_total_lines, prompt,
                   result, log, request>>

\* analyze_error_event from perform_ai_analysis to its return.  The analysis
\* touches neither table: with a repository configuration and a relevant
\* frame it builds the RepoConfig and the fetcher (whose session carries the
\* authentication headers), and it returns its record or raises.  payload is
\* the payload of the stored event.  db.commit() raises
\* IntegrityError when a row with this error_event_id exists (unique index).
\* Every exception goes to `raise self.retry(exc=exc)`.
AnalyseAndStore ==
    /\ \E d \in 1..Len(deliveries), outcome \in {"returns", "raises"} :
         LET delivery == deliveries[d]
             event == error_events[delivery.error_event_id]
             repo_config ==
                 IF \/ event.repo_config = NULL
                    \/ RelevantFramesOf[payload.stack] = <<>>
                 THEN NULL
                 ELSE _create_repo_config(event.repo_config, event.project_key,
                                          environ)
             headers(config) ==
                 IF ~Truthy(config.access_token) THEN {}
                 ELSE IF config.provider = Github
                 THEN {<<"Authorization", <<"token ">> \o config.access_token>>,
                       <<"Accept", <<"application/vnd.github.v3+json">>>>}
                 ELSE IF config.provider = Gitlab
                 THEN {<<"PRIVATE-TOKEN", config.access_token>>}
                 ELSE {}
             analysed(config) ==
                 IF config = NULL
                 THEN [delivery EXCEPT !.analysed = TRUE]
                 ELSE [delivery EXCEPT !.analysed = TRUE,
                                       !.access_token = config.access_token,
                                       !.headers = headers(config)]
             integrity_error ==
                 \E a \in 1..Len(error_analysis) :
                     error_analysis[a].error_event_id = delivery.error_event_id
         IN  /\ delivery.pc = "checked"
             /\ \E config \in {repo_config} : \E after \in {analysed(config)} :
                  IF outcome = "raises" \/ integrity_error
                  THEN /\ deliveries' = [deliveries EXCEPT ![d] = retry(after)]
                       /\ error_analysis' = error_analysis
                  ELSE /\ error_analysis' =
                            Append(error_analysis,
                                   [id |-> Len(error_analysis) + 1,
                                    error_event_id |-> delivery.error_event_id])
                       /\ deliveries' =
                            [deliveries EXCEPT ![d] =
                                [after EXCEPT !.pc = "ended", !.status = "success",
                                              !.reason = "none"]]
    /\ UNCHANGED <<error_events, environ, pc, payload, repo_config_dict,
                   stack_frames, max_files, relevant_frames, idx, elapsed_time,
                   normalized_path, source_code_context, max_total_lines, prompt,
                   result, log, request>>

TaskNext ==
    \/ CreateEvent
    \/ Redeliver
    \/ Lookup
    \/ AnalyseAndStore

SpecTask == TaskInit /\ [][TaskNext]_vars

\* the workers keep taking messages from the queue and running them
SpecTaskFair ==
    TaskInit /\ [][TaskNext]_vars /\ WF_vars(Lookup) /\ WF_vars(AnalyseAndStore)

(***************************************************************************)
(* Claims about the task                                                   *)
(***************************************************************************)
\* the value of a variable of the environment, NULL when it is unset
EnvironValue(name) ==
    IF \E p \in environ : p[1] = name
    THEN (CHOOSE p \in environ : p[1] = name)[2]
    ELSE NULL

ProjectToken == EnvironValue(<<"D","E","B","U","G","_","A","I","_","T","O","K","E","N">>)

GlobalToken == EnvironValue(<<"G","I","T","H","U","B","_","T","O","K","E","N">>)

\* the deliveries whose execution built a RepoConfig
Resolved == {d \in 1..Len(deliveries) : deliveries[d].access_token # UNBOUND}

\* the precedence of the three sources and the header the fetcher sends
TokenPrecedence(d) ==
    LET explicit == error_events[deliveries[d].error_event_id].repo_config.access_token
        provider == ProviderOf(error_events[deliveries[d].error_event_id].repo_config)
        token == deliveries[d].access_token
    IN  /\ Truthy(explicit) => token = explicit
        /\ (~Truthy(explicit) /\ Truthy(ProjectToken)) => token = ProjectToken
        /\ (~Truthy(explicit) /\ ~Truthy(ProjectToken) /\ Truthy(GlobalToken))
              => token = GlobalToken
        /\ Truthy(token) =>
              IF provider = Github
              THEN <<"Authorization", <<"token ">> \o token>> \in deliveries[d].headers
              ELSE deliveries[d].headers = {<<"PRIVATE-TOKEN", token>>}

\* C21 as stated: the token follows the precedence explicit token, then
\* DEBUG_AI_TOKEN, then GITHUB_TOKEN, and when none of the three is set and
\* non-empty the token is None and no authentication header is sent
C21_TokenPrecedenceNoneWhenAbsent ==
    \A d \in Resolved :
        /\ TokenPrecedence(d)
        /\ (/\ ~Truthy(error_events[deliveries[d].error_event_id].repo_config.access_token)
            /\ ~Truthy(ProjectToken)
            /\ ~Truthy(GlobalToken))
              => (deliveries[d].access_token = NULL /\ deliveries[d].headers = {})

\* C21 amended: the same precedence, and when none of the three is set and
\* non-empty the token is None or the empty string (the value of
\* GITHUB_TOKEN, unset or empty) and no authentication header is sent
C21_TokenPrecedenceFalsyWhenAbsent ==
    \A d \in Resolved :
        /\ TokenPrecedence(d)
        /\ (/\ ~Truthy(error_events[deliveries[d].error_event_id].repo_config.access_token)
            /\ ~Truthy(ProjectToken)
            /\ ~Truthy(GlobalToken))
              => (/\ deliveries[d].access_token = GlobalToken
                  /\ ~Truthy(deliveries[d].access_token)
                  /\ deliveries[d].headers = {})

\* an execution resolved the token from the project variable although the
\* configuration holds an empty token and GITHUB_TOKEN is set
C21_Witness ==
    \E d \in Resolved :
        /\ error_events[deliveries[d].error_event_id].repo_config.access_token = <<"">>
        /\ Truthy(ProjectToken)
        /\ Truthy(GlobalToken)
        /\ deliveries[d].access_token = ProjectToken
        /\ deliveries[d].headers # {}

\* an execution found none of the three sources and sent no header
C21_WitnessAbsent ==
    \E d \in Resolved :
        /\ ~Truthy(error_events[deliveries[d].error_event_id].repo_config.access_token)
        /\ ~Truthy(ProjectToken)
        /\ ~Truthy(GlobalToken)
        /\ deliveries[d].headers = {}

\* every delivery's task has ended as success, skipped or permanent failure
AllEnded ==
    \A d \in 1..Len(deliveries) :
        /\ deliveries[d].pc = "ended"
        /\ deliveries[d].status \in {"success", "skipped", "failure"}

NotAnalysable ==
    {d \in 1..Len(deliveries) :
        \/ deliveries[d].error_event_id \notin 1..Len(error_events)
        \/ error_events[deliveries[d].error_event_id].status_code = NULL
        \/ error_events[deliveries[d].error_event_id].status_code[1] < 500}

C23_WitnessNull ==
    \E d \in NotAnalysable :
        /\ deliveries[d].error_event_id \in 1..Len(error_events)
        /\ error_events[deliveries[d].error_event_id].status_code = NULL
        /\ deliveries[d].status = "skipped"
        /\ deliveries[d].reason = "status_code_too_low"

\* a task for an id without a row ended "skipped"
C23_WitnessNotFound ==
    \E d \in NotAnalysable :
        /\ deliveries[d].error_event_id \notin 1..Len(error_events)
        /\ deliveries[d].status = "skipped"
        /\ deliveries[d].reason = "error_event_not_found"

\* C24: whatever the interleaving of the executions for one event, at most
\* one analysis record exists for it; a task that found a record ended
\* "skipped" with reason analysis_exists only when a record exists, and an
\* execution that passed its existence check while a record was being
\* committed stores no second record
C24_AtMostOneAnalysisPerEvent ==
    /\ \A a, b \in 1..Len(error_analysis) :
          error_analysis[a].error_event_id = error_analysis[b].error_event_id
             => a = b
    /\ \A d \in 1..Len(deliveries) :
          deliveries[d].reason = "analysis_exists" =>
             /\ deliveries[d].status = "skipped"
             /\ \E a \in 1..Len(error_analysis) :
                   error_analysis[a].error_event_id = deliveries[d].error_event_id
    /\ Cardinality({d \in 1..Len(deliveries) : deliveries[d].status = "success"})
          = Len(error_analysis)

\* two executions for one event both ran the analysis; one stored the
\* record, the other lost the race at its commit, was retried and then ended
\* "skipped" because the analysis exists
C24_Witness ==
    \E d, e \in 1..Len(deliveries) :
        /\ d # e
        /\ deliveries[d].error_event_id = deliveries[e].error_event_id
        /\ deliveries[d].status = "success"
        /\ deliveries[e].analysed
        /\ deliveries[e].retries > 0
        /\ deliveries[e].status = "skipped"
        /\ deliveries[e].reason = "analysis_exists"
        /\ Len(error_analysis) = 1

====
